---- MODULE Spec2Model ----
(***************************************************************************)
(* A model of the decision ledger: the storage engine (internal/database)  *)
(* over its SQLite schema, and the per-project handle manager              *)
(* (internal/ledger).                                                      *)
(*                                                                         *)
(* SpecDB     : one storage engine, its tables and the operations on them. *)
(* SpecProj   : one storage engine holding several projects.               *)
(* SpecSess   : the sessions of one storage engine and their parents.      *)
(* SpecLineage: sessions looked up by name and forked, and their rows.     *)
(* SpecMut    : every operation that updates or deletes the row of an id.  *)
(* SpecRead   : the reads of one row by its key.                           *)
(* SpecList   : ListDecisions over decisions that are created and archived.*)
(* SpecRelevant: FindRelevantDecisions over decisions of several statuses. *)
(* SpecPatterns: GetOverridePatterns over decisions with several overrides.*)
(* SpecAttempt: the AI attempts of one session and their outcomes.         *)
(* SpecSlug   : GenerateProjectSlug on bounded project paths.              *)
(* SpecPanel  : the decision list panel of the interface.                  *)
(* SpecRace   : the manager with GetDB's return as a step of its own.      *)
(* SpecDedup  : GetOrCreateSession called by several callers at once.      *)
(* SpecCommit : Transaction with the writes of its callback.               *)
(* SpecOverride: one decision that is archived and overridden repeatedly.  *)
(* SpecScope  : the list operations of an engine that holds two projects.  *)
(* SpecMgr    : the handle manager under concurrent callers.               *)
(* SpecStore  : the handle manager with the contents of the store files.   *)
(* SpecTx     : Transaction, Close and a read on one engine, concurrently. *)
(* SpecTxFair : SpecTx with fair scheduling of every step of a call.       *)
(***************************************************************************)
EXTENDS Integers, Sequences, FiniteSets, TLC

(***************************************************************************)
(* Bounds of the model.                                                    *)
(***************************************************************************)
\* generateID() is called at most this many times on one engine
MaxIDs == 3

(***************************************************************************)
(* Identifiers. The empty string is the empty sequence; generateID()       *)
(* yields <<n>> for a fresh n.                                              *)
(***************************************************************************)
NoID == <<>>
\* an id that no row ever carries
GhostID == <<0, 0>>

\* SQL NULL in an id column (and the nil of a read that finds no row):
\* different from every id
Null == <<-1>>

DecisionStatusActive == "active"
DecisionStatusOverridden == "overridden"
DecisionStatusArchived == "archived"

\* what a caller may put into Decision.Status: the three constants, the zero
\* value "" and any other string
StatusInputs ==
  {"", DecisionStatusActive, DecisionStatusOverridden, DecisionStatusArchived, "bogus"}

\* free-text inputs
Categories == {"arch"}
DecisionTexts == {"use sqlite"}
DecisionRationales == {""}
Rationales == {"changed", "temporary"}
SessionNames == {"main"}

VARIABLES
  projects,    \* table projects:  id -> row
  sessions,    \* table sessions:  id -> row
  decisions,   \* table decisions: id -> row
  overrides,   \* table overrides: id -> row
  attempts,    \* table ai_attempts: id -> row
  notes,       \* table notes: id -> row
  projectID,   \* DB.projectID, the engine's bound project
  nextID,      \* number of identifiers generateID() has produced
  now,         \* time.Now() as a logical clock: it ticks with every row stored
  ret,         \* the last call that returned: its name, argument and result
  databases,   \* Manager.databases: path -> handle
  mu,          \* Manager.mu: the writer and the readers holding it
  handles,     \* every *database.DB made by database.New: handle -> state
  disk,        \* the files under Manager.baseDir: store path -> its contents
  pc,          \* per caller: where it is in its Manager call
  call,        \* per caller: the Manager call in progress
  hist,        \* what the manager did since each path's handle was last closed
  dbmu,        \* DB.mu of one engine: the caller holding it, or None
  conn,        \* DB.conn of that engine: "open" or "closed"
  txpc,        \* per caller: where it is in its call on that engine
  nested,      \* per caller: its call was made by the callback of Transaction
  txseq,       \* number of Transaction calls made on the engine
  txno,        \* per caller: the number of its Transaction call
  inflight,    \* the Transaction calls between Begin and Commit/Rollback
  readSaw,     \* per caller: the transactions in flight when its read began
  panel,       \* the DecisionListPanel of the interface: its fields
  found,       \* per caller: the handle GetDB read from the map and has yet
               \* to return, or NoHandle
  selected,    \* per caller: where it is in GetOrCreateSession, the name it
               \* passed and the row its SELECT returned
  wrote,       \* the Transaction calls whose callback wrote through its tx
  committed    \* the Transaction calls whose writes are visible in the store

txvars == <<dbmu, conn, txpc, nested, txseq, txno, inflight, readSaw>>
dbvars == <<projects, sessions, decisions, overrides, attempts, notes,
            projectID, nextID, now, txvars>>
mgrvars == <<databases, mu, handles, disk, pc, call, hist>>
uivars == <<panel>>
stepvars == <<found, selected, wrote, committed>>
vars == <<dbvars, mgrvars, uivars, stepvars, ret>>

(***************************************************************************)
(* The schema (migrateV1): constraints of the tables.                      *)
(***************************************************************************)
\* decisions.status CHECK(status IN ('active', 'overridden', 'archived'))
StatusCheckOff(s) == TRUE
StatusCheck(s) ==
  s \in {DecisionStatusActive, DecisionStatusOverridden, DecisionStatusArchived}

\* FOREIGN KEY (project_id) REFERENCES projects(id), column NOT NULL
ProjectFKOff(p) == TRUE
ProjectFK(p) == p \in DOMAIN projects

\* FOREIGN KEY (session_id) REFERENCES sessions(id); NULL passes
SessionFK(s) == s = Null \/ s \in DOMAIN sessions

\* overrides: FOREIGN KEY (decision_id) REFERENCES decisions(id)
DecisionFK(d) == d \in DOMAIN decisions

\* a Go string bound to a nullable column: "" is stored as NULL
NullIfEmpty(s) == IF s = NoID THEN Null ELSE s

\* generateID(): a fresh random identifier, different from every id stored so
\* far. An id generated for an insert that is rejected is stored nowhere.
generateID == <<nextID + 1>>

\* f without the keys in S
Without(f, S) == [k \in DOMAIN f \ S |-> f[k]]
\* f with key k bound to v
With(f, k, v) == [x \in DOMAIN f \cup {k} |-> IF x = k THEN v ELSE f[x]]

\* the result of an engine call: op(id) returned err and the id out; was is the
\* status of decision id when the call began ("" when there is no such row)
Ret(op, id, err, out) ==
  [op |-> op, id |-> id, err |-> err, out |-> out,
   was |-> IF id \in DOMAIN decisions THEN decisions[id].status ELSE "",
   via |-> ""]

\* the result of a Manager call: op returned err, from the branch via of its
\* code; out is the set of handles whose Close returned an error during it
MgrRet(op, err, via, failed) ==
  [op |-> op, id |-> NoID, err |-> err, out |-> failed, was |-> "", via |-> via]

(***************************************************************************)
(* Reads.                                                                  *)
(***************************************************************************)
\* GetDecision(id): the row, or Null (nil, nil) when there is none
GetDecision(id) == IF id \in DOMAIN decisions THEN decisions[id] ELSE Null

\* ListOverridesForDecision(decisionID): the ids of the rows returned
ListOverridesForDecision(decisionID) ==
  {o \in DOMAIN overrides : overrides[o].decision_id = decisionID}

\* CountOverridesForDecision(decisionID)
CountOverridesForDecision(decisionID) ==
  Cardinality(ListOverridesForDecision(decisionID))

\* what a single-row read returns on sql.ErrNoRows: (nil, nil)
NoRowsIsError == [out |-> Null, err |-> "not found"]
NoRows == [out |-> Null, err |-> ""]

\* what a single-row read returns for the rows its query selects from table:
\* the row (here: its id) that QueryRow scans, or NoRows
ScanRow(rows) ==
  IF rows = {} THEN NoRows ELSE [out |-> CHOOSE r \in rows : TRUE, err |-> ""]

\* a call of a single-row read that returned res: it changes no variable but
\* ret; out is the id of the row returned, Null for nil
ReadCall(op, id, name, res) ==
  /\ ret' = [Ret(op, id, res.err, res.out) EXCEPT !.via = name]
  /\ UNCHANGED <<dbvars, mgrvars, uivars, stepvars>>

\* GetProject(id), GetProjectByName(name), GetSession(id), GetDecision(id),
\* GetOverride(id), GetAttempt(id), GetNote(id), as calls
GetProjectCall(id) ==
  ReadCall("GetProject", id, "", ScanRow(DOMAIN projects \cap {id}))
GetProjectByNameCall(name) ==
  ReadCall("GetProjectByName", NoID, name,
           ScanRow({p \in DOMAIN projects : projects[p].name = name}))
GetSessionCall(id) ==
  ReadCall("GetSession", id, "", ScanRow(DOMAIN sessions \cap {id}))
GetDecisionCall(id) ==
  ReadCall("GetDecision", id, "", ScanRow(DOMAIN decisions \cap {id}))
GetOverrideCall(id) ==
  ReadCall("GetOverride", id, "", ScanRow(DOMAIN overrides \cap {id}))
GetAttemptCall(id) ==
  ReadCall("GetAttempt", id, "", ScanRow(DOMAIN attempts \cap {id}))
GetNoteCall(id) ==
  ReadCall("GetNote", id, "", ScanRow(DOMAIN notes \cap {id}))

(***************************************************************************)
(* Sessions.                                                               *)
(***************************************************************************)
\* CreateSession(s) as called by op, for Session{ProjectID, Name,
\* ParentSessionID}: an empty ProjectID is replaced by db.projectID
SessionInsert(op, name, parent, project) ==
  /\ nextID < MaxIDs
  /\ LET id == generateID
         row == [project_id |-> IF project = NoID THEN projectID ELSE project,
                 name |-> name,
                 parent_session_id |-> NullIfEmpty(parent),
                 created_at |-> now, updated_at |-> now]
         ok == ProjectFK(row.project_id) /\ SessionFK(row.parent_session_id)
     IN /\ IF ok THEN /\ sessions' = With(sessions, id, row)
                      /\ nextID' = nextID + 1
                      /\ now' = now + 1
                      /\ ret' = Ret(op, parent, "", id)
                 ELSE /\ UNCHANGED <<sessions, nextID, now>>
                      /\ ret' = Ret(op, parent, "constraint", NoID)
  /\ UNCHANGED <<projects, decisions, overrides, projectID, mgrvars, txvars, uivars, stepvars,
                 attempts, notes>>

\* CreateSession(s)
CreateSession(name, parent, project) ==
  SessionInsert("CreateSession", name, parent, project)

\* the Session ForkSession passes to CreateSession: its ProjectID
ForkedProjectOfEngine(parent) == projectID
ForkedProject(parent) == parent.project_id

\* ForkSession(parentID, newName): GetSession(parentID), then CreateSession in
\* the parent's project with the parent as parent_session_id
ForkSession(parentID, newName) ==
  IF parentID \in DOMAIN sessions
    THEN SessionInsert("ForkSession", newName, parentID,
                       ForkedProject(sessions[parentID]))
    ELSE /\ ret' = Ret("ForkSession", parentID, "not found", NoID)
         /\ UNCHANGED <<projects, sessions, decisions, overrides, projectID,
                        nextID, now, mgrvars, txvars, uivars, stepvars,
                 attempts, notes>>

\* the rows of SELECT ... FROM sessions WHERE project_id = ? AND name = ? in
\* GetOrCreateSession
SessionsNamedNone(name) == {}
SessionsNamed(name) ==
  {s \in DOMAIN sessions :
     sessions[s].project_id = projectID /\ sessions[s].name = name}

\* the row QueryRow scans: the first of the rows, which the table holds in the
\* order of their insertion
FirstSession(rows) ==
  CHOOSE s \in rows :
    \A t \in rows : sessions[s].created_at <= sessions[t].created_at

\* GetOrCreateSession(name); via tells that the session was found
GetOrCreateSession(name) ==
  IF SessionsNamed(name) # {}
    THEN /\ ret' = [Ret("GetOrCreateSession", NoID, "",
                        FirstSession(SessionsNamed(name)))
                      EXCEPT !.via = "found"]
         /\ UNCHANGED <<projects, sessions, decisions, overrides, projectID,
                        nextID, now, mgrvars, txvars, uivars, stepvars, attempts, notes>>
    ELSE SessionInsert("GetOrCreateSession", name, NoID, projectID)

\* the row after UpdateSession's UPDATE statement: it sets name,
\* parent_session_id and updated_at
UpdateSessionRow(row, name, parent) ==
  [row EXCEPT !.name = name, !.parent_session_id = NullIfEmpty(parent),
              !.updated_at = now]

\* UpdateSession(s) for Session{ID, Name, ParentSessionID}
UpdateSession(id, name, parent) ==
  /\ IF id \in DOMAIN sessions /\ ~SessionFK(NullIfEmpty(parent))
       THEN /\ UNCHANGED sessions
            /\ ret' = Ret("UpdateSession", id, "constraint", NoID)
       ELSE IF id \notin DOMAIN sessions
       THEN /\ UNCHANGED sessions
            /\ ret' = Ret("UpdateSession", id, "not found", NoID)
       ELSE /\ sessions' = [sessions EXCEPT
                              ![id] = UpdateSessionRow(sessions[id], name, parent)]
            /\ ret' = Ret("UpdateSession", id, "", NoID)
  /\ UNCHANGED <<projects, decisions, overrides, projectID, nextID, now,
                 mgrvars, txvars, uivars, stepvars,
                 attempts, notes>>

\* the table sessions after DELETE FROM sessions WHERE id = ?:
\* parent_session_id is ON DELETE SET NULL
SessionsAfterDeleteCascading(id) ==
  [s \in {x \in DOMAIN sessions \ {id} : sessions[x].parent_session_id # id} |->
     sessions[s]]
SessionsAfterDelete(id) ==
  [s \in DOMAIN sessions \ {id} |->
     IF sessions[s].parent_session_id = id
       THEN [sessions[s] EXCEPT !.parent_session_id = Null]
       ELSE sessions[s]]

\* DeleteSession(id), with the schema's ON DELETE actions: child sessions,
\* decisions and notes keep their rows with a NULL reference, overrides and
\* attempts are deleted; via
\* tells whether a child session was set to NULL
DeleteSession(id) ==
  /\ IF id \in DOMAIN sessions
       THEN /\ sessions' = SessionsAfterDelete(id)
            /\ decisions' =
                 [d \in DOMAIN decisions |->
                    IF decisions[d].session_id = id
                      THEN [decisions[d] EXCEPT !.session_id = Null]
                      ELSE decisions[d]]
            /\ overrides' =
                 Without(overrides, {o \in DOMAIN overrides : overrides[o].session_id = id})
            /\ attempts' =
                 Without(attempts, {a \in DOMAIN attempts : attempts[a].session_id = id})
            /\ notes' =
                 [n \in DOMAIN notes |->
                    IF notes[n].session_id = id
                      THEN [notes[n] EXCEPT !.session_id = Null]
                      ELSE notes[n]]
            /\ ret' = [Ret("DeleteSession", id, "", NoID) EXCEPT
                         !.via = IF \E s \in DOMAIN sessions :
                                      sessions[s].parent_session_id = id
                                   THEN "set null" ELSE ""]
       ELSE /\ UNCHANGED <<sessions, decisions, overrides, attempts, notes>>
            /\ ret' = Ret("DeleteSession", id, "not found", NoID)
  /\ UNCHANGED <<projects, projectID, nextID, now, mgrvars, txvars, uivars, stepvars>>

(***************************************************************************)
(* Projects.                                                               *)
(***************************************************************************)
\* CreateProject(p) for Project{Name}: projects.name is UNIQUE
CreateProject(name) ==
  /\ nextID < MaxIDs
  /\ LET id == generateID
         ok == \A q \in DOMAIN projects : projects[q].name # name
     IN IF ok THEN /\ projects' = With(projects, id, [name |-> name])
                   /\ nextID' = nextID + 1
                   /\ now' = now + 1
                   /\ ret' = Ret("CreateProject", NoID, "", id)
              ELSE /\ UNCHANGED <<projects, nextID, now>>
                   /\ ret' = Ret("CreateProject", NoID, "constraint", NoID)
  /\ UNCHANGED <<sessions, decisions, overrides, projectID, mgrvars, txvars, uivars, stepvars,
                 attempts, notes>>

\* UpdateProject(p) for Project{ID, Name}: projects.name is UNIQUE
UpdateProject(id, name) ==
  /\ IF id \in DOMAIN projects
         /\ \E q \in DOMAIN projects \ {id} : projects[q].name = name
       THEN /\ UNCHANGED projects
            /\ ret' = Ret("UpdateProject", id, "constraint", NoID)
       ELSE IF id \notin DOMAIN projects
       THEN /\ UNCHANGED projects
            /\ ret' = Ret("UpdateProject", id, "not found", NoID)
       ELSE /\ projects' = [projects EXCEPT ![id].name = name]
            /\ ret' = Ret("UpdateProject", id, "", NoID)
  /\ UNCHANGED <<sessions, decisions, overrides, projectID, nextID, now,
                 mgrvars, txvars, uivars, stepvars, attempts, notes>>

\* the rows DELETE FROM projects WHERE id = ? removes through ON DELETE
\* CASCADE: the project's sessions, decisions, attempts and notes, and the
\* overrides and attempts that name one of those decisions or sessions
CascadeSessionsNone(id) == {}
CascadeSessions(id) == {s \in DOMAIN sessions : sessions[s].project_id = id}
CascadeDecisions(id) == {d \in DOMAIN decisions : decisions[d].project_id = id}
CascadeOverrides(id) ==
  {o \in DOMAIN overrides : \/ overrides[o].decision_id \in CascadeDecisions(id)
                             \/ overrides[o].session_id \in CascadeSessions(id)}
CascadeAttempts(id) ==
  {a \in DOMAIN attempts : \/ attempts[a].project_id = id
                            \/ attempts[a].session_id \in CascadeSessions(id)}
CascadeNotes(id) == {n \in DOMAIN notes : notes[n].project_id = id}

\* DeleteProject(id), with the schema's ON DELETE actions: rows that stay and
\* name a deleted session keep their row with a NULL reference
DeleteProject(id) ==
  /\ IF id \in DOMAIN projects
       THEN /\ projects' = Without(projects, {id})
            /\ sessions' =
                 [s \in DOMAIN sessions \ CascadeSessions(id) |->
                    IF sessions[s].parent_session_id \in CascadeSessions(id)
                      THEN [sessions[s] EXCEPT !.parent_session_id = Null]
                      ELSE sessions[s]]
            /\ decisions' =
                 [d \in DOMAIN decisions \ CascadeDecisions(id) |->
                    IF decisions[d].session_id \in CascadeSessions(id)
                      THEN [decisions[d] EXCEPT !.session_id = Null]
                      ELSE decisions[d]]
            /\ overrides' = Without(overrides, CascadeOverrides(id))
            /\ attempts' = Without(attempts, CascadeAttempts(id))
            /\ notes' =
                 [n \in DOMAIN notes \ CascadeNotes(id) |->
                    IF notes[n].session_id \in CascadeSessions(id)
                      THEN [notes[n] EXCEPT !.session_id = Null]
                      ELSE notes[n]]
            /\ ret' = Ret("DeleteProject", id, "", NoID)
       ELSE /\ UNCHANGED <<projects, sessions, decisions, overrides, attempts,
                           notes>>
            /\ ret' = Ret("DeleteProject", id, "not found", NoID)
  /\ UNCHANGED <<projectID, nextID, now, mgrvars, txvars, uivars, stepvars>>

(***************************************************************************)
(* Decisions.                                                              *)
(***************************************************************************)
\* what a caller may pass as *Decision
DecisionInputs(ids, projectIDs, sessionIDs) ==
  [ID : ids, ProjectID : projectIDs, SessionID : sessionIDs,
   Category : Categories, Decision : DecisionTexts, Rationale : DecisionRationales,
   AlternativesRejected : {""}, Status : StatusInputs]

\* result.RowsAffected() of an UPDATE or DELETE ... WHERE id = ? on decisions
RowsAffectedUnchecked(id) == 1
RowsAffected(id) == Cardinality({d \in DOMAIN decisions : d = id})

\* CreateDecision(d)
CreateDecision(d) ==
  /\ d.ID = NoID => nextID < MaxIDs
  /\ LET id == IF d.ID = NoID THEN generateID ELSE d.ID
         status == IF d.Status = "" THEN DecisionStatusActive ELSE d.Status
         row == [project_id |-> IF d.ProjectID = NoID THEN projectID ELSE d.ProjectID,
                 session_id |-> NullIfEmpty(d.SessionID),
                 category |-> d.Category, decision |-> d.Decision,
                 rationale |-> d.Rationale,
                 alternatives_rejected |-> d.AlternativesRejected,
                 status |-> status, created_at |-> now]
         ok == /\ id \notin DOMAIN decisions
               /\ ProjectFK(row.project_id)
               /\ SessionFK(row.session_id)
               /\ StatusCheck(row.status)
     IN /\ IF ok THEN /\ decisions' = With(decisions, id, row)
                      /\ nextID' = IF d.ID = NoID THEN nextID + 1 ELSE nextID
                      /\ now' = now + 1
                      /\ ret' = Ret("CreateDecision", d.ID, "", id)
                 ELSE /\ UNCHANGED <<decisions, nextID, now>>
                      /\ ret' = Ret("CreateDecision", d.ID, "constraint", NoID)
  /\ UNCHANGED <<projects, sessions, overrides, projectID, mgrvars, txvars, uivars, stepvars,
                 attempts, notes>>

\* the row after UpdateDecision's UPDATE statement: it sets these five columns
UpdateDecisionRowRelinking(row, d) ==
  [row EXCEPT !.category = d.Category, !.decision = d.Decision,
              !.rationale = d.Rationale,
              !.alternatives_rejected = d.AlternativesRejected,
              !.status = d.Status,
              !.session_id = NullIfEmpty(d.SessionID)]
UpdateDecisionRow(row, d) ==
  [row EXCEPT !.category = d.Category, !.decision = d.Decision,
              !.rationale = d.Rationale,
              !.alternatives_rejected = d.AlternativesRejected,
              !.status = d.Status]

\* UpdateDecision(d)
UpdateDecision(d) ==
  /\ IF d.ID \in DOMAIN decisions /\ ~StatusCheck(d.Status)
       THEN /\ UNCHANGED decisions
            /\ ret' = Ret("UpdateDecision", d.ID, "constraint", NoID)
       ELSE IF RowsAffected(d.ID) = 0
       THEN /\ UNCHANGED decisions
            /\ ret' = Ret("UpdateDecision", d.ID, "not found", NoID)
       ELSE /\ decisions' = [x \in DOMAIN decisions |->
                              IF x = d.ID THEN UpdateDecisionRow(decisions[x], d)
                                          ELSE decisions[x]]
            /\ ret' = Ret("UpdateDecision", d.ID, "", NoID)
  /\ UNCHANGED <<projects, sessions, overrides, projectID, nextID, now, mgrvars, txvars, uivars, stepvars,
                 attempts, notes>>

\* the table decisions after the UPDATE statement of ArchiveDecision
\* the UPDATE statement of ArchiveDecision without its WHERE id = ?
ArchiveUpdateEveryRow(id) ==
  [d \in DOMAIN decisions |->
     [decisions[d] EXCEPT !.status = DecisionStatusArchived]]
ArchiveUpdateToActive(id) ==
  [d \in DOMAIN decisions |->
     IF d = id THEN [decisions[d] EXCEPT !.status = DecisionStatusActive]
               ELSE decisions[d]]
ArchiveUpdate(id) ==
  [d \in DOMAIN decisions |->
     IF d = id THEN [decisions[d] EXCEPT !.status = DecisionStatusArchived]
               ELSE decisions[d]]

\* ArchiveDecision(id)
ArchiveDecision(id) ==
  /\ IF RowsAffected(id) > 0
       THEN /\ decisions' = ArchiveUpdate(id)
            /\ ret' = Ret("ArchiveDecision", id, "", NoID)
       ELSE /\ UNCHANGED decisions
            /\ ret' = Ret("ArchiveDecision", id, "not found", NoID)
  /\ UNCHANGED <<projects, sessions, overrides, projectID, nextID, now, mgrvars, txvars, uivars, stepvars,
                 attempts, notes>>

\* DeleteDecision(id); overrides.decision_id is ON DELETE CASCADE
DeleteDecision(id) ==
  /\ IF RowsAffected(id) > 0
       THEN /\ decisions' = Without(decisions, {id})
            /\ overrides' =
                 Without(overrides, {o \in DOMAIN overrides : overrides[o].decision_id = id})
            /\ ret' = Ret("DeleteDecision", id, "", NoID)
       ELSE /\ UNCHANGED <<decisions, overrides>>
            /\ ret' = Ret("DeleteDecision", id, "not found", NoID)
  /\ UNCHANGED <<projects, sessions, projectID, nextID, now, mgrvars, txvars, uivars, stepvars,
                 attempts, notes>>

(***************************************************************************)
(* Overrides.                                                              *)
(***************************************************************************)
\* the row CreateOverride inserts for Override{DecisionID, SessionID, Rationale}
OverrideRowNoRationale(decisionID, sessionID, rationale) ==
  [decision_id |-> decisionID, session_id |-> sessionID,
   rationale |-> "", created_at |-> now]
OverrideRow(decisionID, sessionID, rationale) ==
  [decision_id |-> decisionID, session_id |-> sessionID,
   rationale |-> rationale, created_at |-> now]

\* whether the INSERT of CreateOverride is accepted: the primary key is new and
\* both foreign keys name a row (session_id is NOT NULL and "" names no session)
OverrideInsertOK(id, row) ==
  /\ id \notin DOMAIN overrides
  /\ DecisionFK(row.decision_id)
  /\ row.session_id \in DOMAIN sessions

\* CreateOverride(o)
CreateOverride(oID, decisionID, sessionID, rationale) ==
  /\ oID = NoID => nextID < MaxIDs
  /\ LET id == IF oID = NoID THEN generateID ELSE oID
         row == OverrideRow(decisionID, sessionID, rationale)
         ok == OverrideInsertOK(id, row)
     IN /\ IF ok THEN /\ overrides' = With(overrides, id, row)
                      /\ nextID' = IF oID = NoID THEN nextID + 1 ELSE nextID
                      /\ now' = now + 1
                      /\ ret' = Ret("CreateOverride", decisionID, "", id)
                 ELSE /\ UNCHANGED <<overrides, nextID, now>>
                      /\ ret' = Ret("CreateOverride", decisionID, "constraint", NoID)
  /\ UNCHANGED <<projects, sessions, decisions, projectID, mgrvars, txvars, uivars, stepvars,
                 attempts, notes>>

\* the UPDATE statement of OverrideDecision with AND status = 'active'
OverrideUpdateOnlyActive(decisionID) ==
  [d \in DOMAIN decisions |->
     IF d = decisionID /\ decisions[d].status = DecisionStatusActive
       THEN [decisions[d] EXCEPT !.status = DecisionStatusOverridden]
       ELSE decisions[d]]

\* the table decisions after the UPDATE statement of OverrideDecision
OverrideUpdate(decisionID) ==
  [d \in DOMAIN decisions |->
     IF d = decisionID THEN [decisions[d] EXCEPT !.status = DecisionStatusOverridden]
                       ELSE decisions[d]]

\* OverrideDecision(decisionID, sessionID, rationale): the UPDATE, committed on
\* its own, then CreateOverride
OverrideDecision(decisionID, sessionID, rationale) ==
  /\ IF RowsAffected(decisionID) = 0
       THEN /\ UNCHANGED <<decisions, overrides, nextID, now>>
            /\ ret' = Ret("OverrideDecision", decisionID, "not found", NoID)
       ELSE /\ nextID < MaxIDs
            /\ LET id == generateID
                   row == OverrideRow(decisionID, sessionID, rationale)
                   ok == OverrideInsertOK(id, row)
               IN /\ decisions' = OverrideUpdate(decisionID)
                  /\ IF ok THEN /\ overrides' = With(overrides, id, row)
                                /\ nextID' = nextID + 1
                                /\ now' = now + 1
                                /\ ret' = Ret("OverrideDecision", decisionID, "", id)
                           ELSE /\ UNCHANGED <<overrides, nextID, now>>
                                /\ ret' = Ret("OverrideDecision", decisionID,
                                              "constraint", NoID)
  /\ UNCHANGED <<projects, sessions, projectID, mgrvars, txvars, uivars, stepvars,
                 attempts, notes>>

(***************************************************************************)
(* AI attempts.                                                            *)
(***************************************************************************)
AttemptOutcomePending == "pending"
AttemptOutcomeWorked == "worked"
AttemptOutcomeFailed == "failed"
AttemptOutcomePartial == "partial"

\* ai_attempts.outcome CHECK(outcome IN ('pending', 'worked', 'failed',
\* 'partial'))
OutcomeCheck(o) ==
  o \in {AttemptOutcomePending, AttemptOutcomeWorked, AttemptOutcomeFailed,
         AttemptOutcomePartial}

\* SQL NULL in a text column, different from every string a caller passes
NullText == "<NULL>"

\* a Go string read from a nullable text column through sql.NullString: NULL
\* is read as ""
FromNullText(v) == IF v = NullText THEN "" ELSE v

\* CreateAttempt(a) for AIAttempt{ProjectID, SessionID, Outcome,
\* FailureReason}; session_id is NOT NULL and "" names no session
CreateAttempt(project, session, outcome, failureReason) ==
  /\ nextID < MaxIDs
  /\ LET id == generateID
         row == [project_id |-> IF project = NoID THEN projectID ELSE project,
                 session_id |-> session,
                 outcome |-> IF outcome = "" THEN AttemptOutcomePending
                             ELSE outcome,
                 failure_reason |-> failureReason,
                 created_at |-> now]
         ok == /\ ProjectFK(row.project_id)
               /\ row.session_id \in DOMAIN sessions
               /\ OutcomeCheck(row.outcome)
     IN IF ok THEN /\ attempts' = With(attempts, id, row)
                   /\ nextID' = nextID + 1
                   /\ now' = now + 1
                   /\ ret' = Ret("CreateAttempt", NoID, "", id)
              ELSE /\ UNCHANGED <<attempts, nextID, now>>
                   /\ ret' = Ret("CreateAttempt", NoID, "constraint", NoID)
  /\ UNCHANGED <<projects, sessions, decisions, overrides, notes, projectID,
                 mgrvars, txvars, uivars, stepvars>>

\* the row after UpdateAttemptOutcome's UPDATE statement: it sets outcome and
\* failure_reason, the latter to NULL for an empty failureReason
UpdateAttemptRowKeepingReason(row, outcome, failureReason) ==
  [row EXCEPT !.outcome = outcome,
              !.failure_reason = IF failureReason = "" THEN @
                                 ELSE failureReason]
UpdateAttemptRow(row, outcome, failureReason) ==
  [row EXCEPT !.outcome = outcome,
              !.failure_reason = IF failureReason = "" THEN NullText
                                 ELSE failureReason]

\* UpdateAttemptOutcome(id, outcome, failureReason) as called by op; the result
\* keeps in was the failure reason the attempt had when the call began
AttemptOutcomeUpdate(op, id, outcome, failureReason) ==
  /\ IF id \in DOMAIN attempts /\ ~OutcomeCheck(outcome)
       THEN /\ UNCHANGED attempts
            /\ ret' = Ret(op, id, "constraint", NoID)
       ELSE IF id \notin DOMAIN attempts
       THEN /\ UNCHANGED attempts
            /\ ret' = Ret(op, id, "not found", NoID)
       ELSE /\ attempts' =
                 [attempts EXCEPT
                    ![id] = UpdateAttemptRow(attempts[id], outcome, failureReason)]
            /\ ret' = [Ret(op, id, "", NoID)
                         EXCEPT !.was = attempts[id].failure_reason]
  /\ UNCHANGED <<projects, sessions, decisions, overrides, notes, projectID,
                 nextID, now, mgrvars, txvars, uivars, stepvars>>

UpdateAttemptOutcome(id, outcome, failureReason) ==
  AttemptOutcomeUpdate("UpdateAttemptOutcome", id, outcome, failureReason)

\* MarkAttemptWorked(id), MarkAttemptFailed(id, reason),
\* MarkAttemptPartial(id, notes)
MarkAttemptWorked(id) ==
  AttemptOutcomeUpdate("MarkAttemptWorked", id, AttemptOutcomeWorked, "")
MarkAttemptFailed(id, reason) ==
  AttemptOutcomeUpdate("MarkAttemptFailed", id, AttemptOutcomeFailed, reason)
MarkAttemptPartial(id, reason) ==
  AttemptOutcomeUpdate("MarkAttemptPartial", id, AttemptOutcomePartial, reason)

\* DeleteAttempt(id)
DeleteAttempt(id) ==
  /\ IF id \in DOMAIN attempts
       THEN /\ attempts' = Without(attempts, {id})
            /\ ret' = Ret("DeleteAttempt", id, "", NoID)
       ELSE /\ UNCHANGED attempts
            /\ ret' = Ret("DeleteAttempt", id, "not found", NoID)
  /\ UNCHANGED <<projects, sessions, decisions, overrides, notes, projectID,
                 nextID, now, mgrvars, txvars, uivars, stepvars>>

(***************************************************************************)
(* Notes.                                                                  *)
(***************************************************************************)
\* CreateNote(n) for Note{ProjectID, SessionID, Content}
CreateNote(project, session, content) ==
  /\ nextID < MaxIDs
  /\ LET id == generateID
         row == [project_id |-> IF project = NoID THEN projectID ELSE project,
                 session_id |-> NullIfEmpty(session),
                 content |-> content, created_at |-> now]
         ok == ProjectFK(row.project_id) /\ SessionFK(row.session_id)
     IN IF ok THEN /\ notes' = With(notes, id, row)
                   /\ nextID' = nextID + 1
                   /\ now' = now + 1
                   /\ ret' = Ret("CreateNote", NoID, "", id)
              ELSE /\ UNCHANGED <<notes, nextID, now>>
                   /\ ret' = Ret("CreateNote", NoID, "constraint", NoID)
  /\ UNCHANGED <<projects, sessions, decisions, overrides, attempts, projectID,
                 mgrvars, txvars, uivars, stepvars>>

\* UpdateNote(n) for Note{ID, Content}
UpdateNote(id, content) ==
  /\ IF id \in DOMAIN notes
       THEN /\ notes' = [notes EXCEPT ![id].content = content]
            /\ ret' = Ret("UpdateNote", id, "", NoID)
       ELSE /\ UNCHANGED notes
            /\ ret' = Ret("UpdateNote", id, "not found", NoID)
  /\ UNCHANGED <<projects, sessions, decisions, overrides, attempts, projectID,
                 nextID, now, mgrvars, txvars, uivars, stepvars>>

\* DeleteNote(id)
DeleteNote(id) ==
  /\ IF id \in DOMAIN notes
       THEN /\ notes' = Without(notes, {id})
            /\ ret' = Ret("DeleteNote", id, "", NoID)
       ELSE /\ UNCHANGED notes
            /\ ret' = Ret("DeleteNote", id, "not found", NoID)
  /\ UNCHANGED <<projects, sessions, decisions, overrides, attempts, projectID,
                 nextID, now, mgrvars, txvars, uivars, stepvars>>

(***************************************************************************)
(* The storage engine, right after database.New on a fresh store:          *)
(* ensureProject has inserted the project row, every other table is empty. *)
(***************************************************************************)
BoundProject == <<0, 1>>

InitDB ==
  /\ projects = [p \in {BoundProject} |-> [name |-> "slug"]]
  /\ sessions = <<>>
  /\ decisions = <<>>
  /\ overrides = <<>>
  /\ attempts = <<>>
  /\ notes = <<>>
  /\ projectID = BoundProject
  /\ nextID = 0
  /\ now = 0
  /\ ret = Ret("New", NoID, "", NoID)

\* the ids a caller may name: those of stored rows and one that names no row
DecisionArgs == DOMAIN decisions \cup {GhostID}
SessionArgs == DOMAIN sessions \cup {NoID, GhostID}
ProjectArgs == DOMAIN projects \cup {NoID, GhostID}
ProjectNames == {"slug", "other"}

NextDB ==
  \/ \E n \in SessionNames, p \in SessionArgs : CreateSession(n, p, NoID)
  \/ \E s \in DOMAIN sessions \cup {GhostID} : DeleteSession(s)
  \/ \E d \in DecisionInputs({NoID}, {NoID, GhostID}, SessionArgs) :
       CreateDecision(d)
  \/ \E d \in DecisionInputs(DecisionArgs, {NoID}, {NoID}) : UpdateDecision(d)
  \/ \E id \in DecisionArgs : ArchiveDecision(id)
  \/ \E id \in DecisionArgs : DeleteDecision(id)
  \/ \E id \in DecisionArgs, s \in SessionArgs, r \in Rationales :
       OverrideDecision(id, s, r)
  \/ \E id \in DecisionArgs, s \in SessionArgs, r \in Rationales :
       CreateOverride(NoID, id, s, r)

\* one decision, stored under an id its caller chose, that is archived and
\* overridden any number of times; nothing is deleted and no Override row is
\* inserted except by OverrideDecision
CallerChosenID == <<0, 2>>

OverriddenDecisionInputs ==
  {d \in DecisionInputs({CallerChosenID}, {NoID}, {NoID}) : StatusCheck(d.Status)}

NextOverride ==
  \/ \E n \in SessionNames : CreateSession(n, NoID, NoID)
  \/ \E d \in OverriddenDecisionInputs : CreateDecision(d)
  \/ \E id \in DecisionArgs : ArchiveDecision(id)
  \/ \E id \in DecisionArgs, s \in SessionArgs, r \in Rationales :
       OverrideDecision(id, s, r)

\* the engine with more than one project: the operations on projects and
\* sessions, and the creation of decisions and overrides in them
ProjectDecisionInputs ==
  {d \in DecisionInputs({NoID}, ProjectArgs, SessionArgs) : d.Status = ""}

NextProj ==
  \/ \E n \in ProjectNames : CreateProject(n)
  \/ \E id \in DOMAIN projects \cup {GhostID} : DeleteProject(id)
  \/ \E n \in SessionNames, p \in SessionArgs, q \in ProjectArgs :
       CreateSession(n, p, q)
  \/ \E s \in DOMAIN sessions \cup {GhostID}, n \in SessionNames :
       ForkSession(s, n)
  \/ \E s \in DOMAIN sessions \cup {GhostID} : DeleteSession(s)
  \/ \E d \in ProjectDecisionInputs : CreateDecision(d)
  \/ \E id \in DecisionArgs : DeleteDecision(id)
  \/ \E id \in DecisionArgs, s \in SessionArgs :
       CreateOverride(NoID, id, s, "changed")

\* the names callers give to sessions they look up or fork
LineageNames == {"main", "explore-x"}

\* the engine's operations on the lineage of sessions, with the rows that
\* hang on a session
NextLineage ==
  \/ CreateProject("other")
  \/ \E n \in LineageNames : GetOrCreateSession(n)
  \/ \E n \in LineageNames, p \in SessionArgs, q \in ProjectArgs :
       CreateSession(n, p, q)
  \/ \E s \in DOMAIN sessions \cup {GhostID}, n \in LineageNames :
       ForkSession(s, n)
  \/ \E s \in DOMAIN sessions \cup {GhostID} : DeleteSession(s)
  \/ \E d \in DecisionInputs({NoID}, {NoID}, SessionArgs) :
       d.Status = "" /\ CreateDecision(d)
  \/ \E s \in SessionArgs : CreateNote(NoID, s, "note")
  \/ \E s \in SessionArgs : CreateAttempt(NoID, s, "", "")

\* the ids a caller may name for a note and for an attempt
NoteArgs == DOMAIN notes \cup {GhostID}
AttemptArgs == DOMAIN attempts \cup {GhostID}

\* the engine's operations that change or delete the row of an id, called
\* with stored ids and with an id no row carries, and the creation of rows
\* for them. UpdateSession, UpdateDecision, ArchiveDecision, OverrideDecision
\* and UpdateAttemptOutcome are called with the latter only.
NextMut ==
  \/ CreateSession("main", NoID, NoID)
  \/ \E d \in DecisionInputs({NoID}, {NoID}, {NoID}) :
       d.Status = "" /\ CreateDecision(d)
  \/ \E s \in DOMAIN sessions : CreateNote(NoID, s, "note")
  \/ \E s \in DOMAIN sessions : CreateAttempt(NoID, s, "", "")
  \/ \E id \in DOMAIN projects \cup {GhostID} : UpdateProject(id, "other")
  \/ \E p \in {NoID, GhostID} : UpdateSession(GhostID, "main", p)
  \/ \E d \in DecisionInputs({GhostID}, {NoID}, {NoID}) :
       d.Status \in {DecisionStatusArchived, "bogus"} /\ UpdateDecision(d)
  \/ \E id \in NoteArgs : UpdateNote(id, "edited")
  \/ \E o \in {AttemptOutcomeFailed, "bogus"} :
       UpdateAttemptOutcome(GhostID, o, "timeout")
  \/ ArchiveDecision(GhostID)
  \/ \E s \in DOMAIN sessions \cup {GhostID} :
       OverrideDecision(GhostID, s, "changed")
  \/ \E id \in DOMAIN projects \cup {GhostID} : DeleteProject(id)
  \/ \E id \in DOMAIN sessions \cup {GhostID} : DeleteSession(id)
  \/ \E id \in DecisionArgs : DeleteDecision(id)
  \/ \E id \in AttemptArgs : DeleteAttempt(id)
  \/ \E id \in NoteArgs : DeleteNote(id)
  \/ \E id \in DOMAIN sessions \cup {GhostID} : ForkSession(id, "main")

\* the engine's single-row reads, called with stored keys and with keys no
\* row carries, between the creation and deletion of rows
NextRead ==
  \/ CreateSession("main", NoID, NoID)
  \/ \E d \in DecisionInputs({NoID}, {NoID}, {NoID}) :
       d.Status = "" /\ CreateDecision(d)
  \/ \E id \in DOMAIN decisions, s \in DOMAIN sessions :
       CreateOverride(NoID, id, s, "changed")
  \/ \E s \in DOMAIN sessions : CreateNote(NoID, s, "note")
  \/ \E s \in DOMAIN sessions : CreateAttempt(NoID, s, "", "")
  \/ \E id \in DOMAIN sessions : DeleteSession(id)
  \/ \E id \in DOMAIN projects \cup {GhostID} : GetProjectCall(id)
  \/ \E n \in ProjectNames : GetProjectByNameCall(n)
  \/ \E id \in DOMAIN sessions \cup {GhostID} : GetSessionCall(id)
  \/ \E id \in DecisionArgs : GetDecisionCall(id)
  \/ \E id \in DOMAIN overrides \cup {GhostID} : GetOverrideCall(id)
  \/ \E id \in AttemptArgs : GetAttemptCall(id)
  \/ \E id \in NoteArgs : GetNoteCall(id)

\* the engine's operations on sessions
NextSess ==
  \/ \E n \in ProjectNames : CreateProject(n)
  \/ \E n \in SessionNames, p \in SessionArgs, q \in ProjectArgs :
       CreateSession(n, p, q)
  \/ \E s \in DOMAIN sessions \cup {GhostID}, n \in SessionNames,
        p \in SessionArgs : UpdateSession(s, n, p)
  \/ \E s \in DOMAIN sessions \cup {GhostID}, n \in SessionNames :
       ForkSession(s, n)
  \/ \E s \in DOMAIN sessions \cup {GhostID} : DeleteSession(s)

(***************************************************************************)
(* Properties of the storage engine, checked under SpecDB.                 *)
(***************************************************************************)
Tables == <<projects, sessions, decisions, overrides, attempts, notes>>
ValidStatuses ==
  {DecisionStatusActive, DecisionStatusOverridden, DecisionStatusArchived}

\* C1: OverrideDecision never applies partially: when it returns an error the
\* Decision's status is what it was before the call, and when it returns an
\* Override the status is overridden and that Override row exists.
C1_OverrideNeverPartial ==
  (ret.op = "OverrideDecision" /\ ret.id \in DOMAIN decisions) =>
    IF ret.err = ""
      THEN /\ decisions[ret.id].status = DecisionStatusOverridden
           /\ ret.out \in ListOverridesForDecision(ret.id)
      ELSE decisions[ret.id].status = ret.was

\* the state C1 forbids: OverrideDecision returned an error, the Decision it
\* named was active and is now overridden, and it has no Override row
C1_PartialOverride ==
  /\ ret.op = "OverrideDecision" /\ ret.err = "constraint"
  /\ ret.was = DecisionStatusActive
  /\ ret.id \in DOMAIN decisions
  /\ decisions[ret.id].status = DecisionStatusOverridden
  /\ ListOverridesForDecision(ret.id) = {}

\* C2: a successful OverrideDecision(id, s, r) on an active Decision leaves
\* GetDecision(id) overridden and ListOverridesForDecision(id) with exactly one
\* more row, which carries id, s and r.
C2_OverrideAddsOneRow ==
  [][\A id \in DOMAIN decisions, s \in SessionArgs, r \in Rationales :
       (/\ OverrideDecision(id, s, r)
        /\ ret'.err = ""
        /\ decisions[id].status = DecisionStatusActive)
       => /\ GetDecision(id)'.status = DecisionStatusOverridden
          /\ \E o \in ListOverridesForDecision(id)' :
               /\ o \notin DOMAIN overrides
               /\ ListOverridesForDecision(id)' = ListOverridesForDecision(id) \cup {o}
               /\ overrides'[o].decision_id = id
               /\ overrides'[o].session_id = s
               /\ overrides'[o].rationale = r]_vars

\* OverrideDecision has succeeded on a Decision that was active
C2_Overridden ==
  /\ ret.op = "OverrideDecision" /\ ret.err = ""
  /\ ret.was = DecisionStatusActive
  /\ decisions[ret.id].status = DecisionStatusOverridden
  /\ ret.out \in ListOverridesForDecision(ret.id)

\* C3: OverrideDecision with an id that names no Decision returns not found
\* and changes no table.
C3_OverrideMissingDecision ==
  [][(ret'.op = "OverrideDecision" /\ ret'.id \notin DOMAIN decisions)
       => (ret'.err = "not found" /\ UNCHANGED Tables)]_vars

\* OverrideDecision has returned not found while other Decisions are stored
C3_NotFound ==
  /\ ret.op = "OverrideDecision" /\ ret.err = "not found"
  /\ ret.id \notin DOMAIN decisions
  /\ DOMAIN decisions # {} /\ DOMAIN sessions # {}

\* C4: right after an operation that inserted an Override row (OverrideDecision
\* or CreateOverride), the Decision that row names has status overridden.
C4_OverrideRowMeansOverridden ==
  (ret.op \in {"OverrideDecision", "CreateOverride"} /\ ret.err = "") =>
    decisions[overrides[ret.out].decision_id].status = DecisionStatusOverridden

\* CreateOverride has inserted a row for a Decision that is still active
C4_OverrideOfActive ==
  /\ ret.op = "CreateOverride" /\ ret.err = ""
  /\ decisions[overrides[ret.out].decision_id].status = DecisionStatusActive

\* C5 as stated: once a Decision is overridden or archived, none of
\* UpdateDecision, ArchiveDecision, OverrideDecision, CreateOverride makes it
\* active again.
C5_NoWayBackToActive ==
  [][\A d \in DOMAIN decisions :
       (/\ decisions[d].status \in {DecisionStatusOverridden, DecisionStatusArchived}
        /\ ret'.op \in {"UpdateDecision", "ArchiveDecision", "OverrideDecision",
                        "CreateOverride"})
       => decisions'[d].status # DecisionStatusActive]_vars

\* C5 amended: ArchiveDecision, OverrideDecision and CreateOverride never make
\* an overridden or archived Decision active again; UpdateDecision does, and
\* only for the Decision it names and only when it is given status active.
C5_OnlyUpdateReactivates ==
  [][\A d \in DOMAIN decisions :
       (/\ decisions[d].status \in {DecisionStatusOverridden, DecisionStatusArchived}
        /\ ret'.op \in {"UpdateDecision", "ArchiveDecision", "OverrideDecision",
                        "CreateOverride"}
        /\ decisions'[d].status = DecisionStatusActive)
       => \E in \in DecisionInputs({d}, {NoID}, {NoID}) :
            in.Status = DecisionStatusActive /\ UpdateDecision(in)]_vars

\* UpdateDecision has made an overridden or archived Decision active
C5_Reactivated ==
  /\ ret.op = "UpdateDecision" /\ ret.err = ""
  /\ ret.was \in {DecisionStatusOverridden, DecisionStatusArchived}
  /\ decisions[ret.id].status = DecisionStatusActive

\* C6: every stored Decision's status is active, overridden or archived;
\* CreateDecision without a status stores active; CreateDecision with a status
\* outside the three, and UpdateDecision with one, fail and change no table.
C6_StatusDomain ==
  [][/\ \A d \in DOMAIN decisions' : decisions'[d].status \in ValidStatuses
     /\ \A in \in DecisionInputs({NoID}, {NoID, GhostID}, SessionArgs) :
          /\ (CreateDecision(in) /\ in.Status = "" /\ ret'.err = "")
               => decisions'[ret'.out].status = DecisionStatusActive
          /\ (CreateDecision(in) /\ in.Status \notin ValidStatuses \cup {""})
               => (ret'.err # "" /\ UNCHANGED Tables)
     /\ \A in \in DecisionInputs(DOMAIN decisions, {NoID}, {NoID}) :
          (UpdateDecision(in) /\ in.Status \notin ValidStatuses)
            => (ret'.err # "" /\ UNCHANGED Tables)]_vars

\* UpdateDecision has been rejected for the status it carried
C6_Rejected ==
  /\ ret.op = "UpdateDecision" /\ ret.err = "constraint"
  /\ ret.id \in DOMAIN decisions

(***************************************************************************)
(* Project paths. A string is a sequence of one-character strings.         *)
(***************************************************************************)
LowerChars ==
  <<"a", "b", "c", "d", "e", "f", "g", "h", "i", "j", "k", "l", "m",
    "n", "o", "p", "q", "r", "s", "t", "u", "v", "w", "x", "y", "z">>
UpperChars ==
  <<"A", "B", "C", "D", "E", "F", "G", "H", "I", "J", "K", "L", "M",
    "N", "O", "P", "Q", "R", "S", "T", "U", "V", "W", "X", "Y", "Z">>
DigitChars == <<"0", "1", "2", "3", "4", "5", "6", "7", "8", "9">>

Range(f) == {f[i] : i \in DOMAIN f}

\* the segments of path between its separators, empty ones included
RECURSIVE SplitPath(_)
SplitPath(path) ==
  IF \A i \in DOMAIN path : path[i] # "/"
    THEN <<path>>
    ELSE LET i == CHOOSE k \in DOMAIN path :
                    path[k] = "/" /\ \A j \in 1..(k - 1) : path[j] # "/"
         IN <<SubSeq(path, 1, i - 1)>> \o SplitPath(SubSeq(path, i + 1, Len(path)))

\* segs joined by the separator
RECURSIVE JoinPath(_)
JoinPath(segs) ==
  IF segs = <<>> THEN <<>>
  ELSE IF Len(segs) = 1 THEN segs[1]
  ELSE segs[1] \o <<"/">> \o JoinPath(Tail(segs))

\* filepath.Clean's pass over the segments: "" and "." are dropped, ".." drops
\* the segment before it (at the root it is dropped, at the start of a relative
\* path it is kept)
RECURSIVE CleanSegments(_, _, _)
CleanSegments(segs, out, rooted) ==
  IF segs = <<>> THEN out
  ELSE LET seg == Head(segs)
           rest == Tail(segs)
       IN IF seg = <<>> \/ seg = <<".">>
            THEN CleanSegments(rest, out, rooted)
          ELSE IF seg = <<".", ".">>
            THEN IF out # <<>> /\ out[Len(out)] # <<".", ".">>
                   THEN CleanSegments(rest, SubSeq(out, 1, Len(out) - 1), rooted)
                 ELSE IF rooted
                   THEN CleanSegments(rest, out, rooted)
                 ELSE CleanSegments(rest, Append(out, seg), rooted)
          ELSE CleanSegments(rest, Append(out, seg), rooted)

\* filepath.Clean(path)
Clean(path) ==
  IF path = <<>> THEN <<".">>
  ELSE LET rooted == path[1] = "/"
           body == JoinPath(CleanSegments(SplitPath(path), <<>>, rooted))
       IN IF rooted THEN <<"/">> \o body
          ELSE IF body = <<>> THEN <<".">> ELSE body

\* path without its trailing separators
RECURSIVE StripTrailingSlashes(_)
StripTrailingSlashes(path) ==
  IF path # <<>> /\ path[Len(path)] = "/"
    THEN StripTrailingSlashes(SubSeq(path, 1, Len(path) - 1))
    ELSE path

\* the index of the last separator of path, 0 when it has none
LastSlash(path) ==
  IF \A i \in DOMAIN path : path[i] # "/" THEN 0
  ELSE CHOOSE i \in DOMAIN path :
         path[i] = "/" /\ \A j \in (i + 1)..Len(path) : path[j] # "/"

\* filepath.Base(path)
Base(path) ==
  IF path = <<>> THEN <<".">>
  ELSE LET p == StripTrailingSlashes(path)
           last == SubSeq(p, LastSlash(p) + 1, Len(p))
       IN IF last = <<>> THEN <<"/">> ELSE last

\* filepath.Dir(path)
Dir(path) == Clean(SubSeq(path, 1, LastSlash(path)))

\* sanitizeSlug's switch on one byte: the bytes appended for it
SanitizeCharKeepingCase(c) ==
  IF c \in Range(LowerChars) \cup Range(UpperChars) THEN <<c>>
  ELSE IF c \in Range(DigitChars) THEN <<c>>
  ELSE IF c = "-" \/ c = "_" THEN <<c>>
  ELSE IF c = " " \/ c = "/" THEN <<"-">>
  ELSE <<>>
SanitizeChar(c) ==
  IF c \in Range(LowerChars) THEN <<c>>
  ELSE IF c \in Range(UpperChars)
    THEN <<LowerChars[CHOOSE i \in DOMAIN UpperChars : UpperChars[i] = c]>>
  ELSE IF c \in Range(DigitChars) THEN <<c>>
  ELSE IF c = "-" \/ c = "_" THEN <<c>>
  ELSE IF c = " " \/ c = "/" THEN <<"-">>
  ELSE <<>>

\* sanitizeSlug(s)
RECURSIVE sanitizeSlug(_)
sanitizeSlug(s) ==
  IF s = <<>> THEN <<>> ELSE SanitizeChar(Head(s)) \o sanitizeSlug(Tail(s))

\* GenerateProjectSlug(projectPath)
GenerateProjectSlug(projectPath) ==
  LET cleanPath == Clean(projectPath)
      base == Base(cleanPath)
      parent == Base(Dir(cleanPath))
  IN IF parent # <<>> /\ parent # <<".">> /\ parent # <<"/">>
       THEN sanitizeSlug(parent \o <<"-">> \o base)
       ELSE sanitizeSlug(base)

\* the project paths callers pass: a directory, the same directory with a
\* trailing separator, and another directory
PathA == <<"/", "r", "/", "A", "p", "p">>
PathASlash == <<"/", "r", "/", "A", "p", "p", "/">>
PathB == <<"/", "q", "/", "b">>
Paths == {PathA, PathASlash, PathB}

\* GenerateProjectSlug on each of these paths, computed once
ProjectSlugs == [p \in Paths |-> GenerateProjectSlug(p)]

(***************************************************************************)
(* Queries over decisions. A text is a sequence of one-character strings,  *)
(* the empty text is the empty sequence.                                   *)
(***************************************************************************)
\* an ASCII letter in lower case, every other character as it is
ToLowerChar(c) ==
  IF c \in Range(UpperChars)
    THEN LowerChars[CHOOSE i \in DOMAIN UpperChars : UpperChars[i] = c]
    ELSE c

\* SQLite's text LIKE pattern: % matches any run of characters, _ matches any
\* one character, every other character matches itself, ASCII letters in
\* either case
RECURSIVE Like(_, _)
Like(text, pattern) ==
  IF pattern = <<>> THEN text = <<>>
  ELSE IF Head(pattern) = "%"
    THEN \E k \in 0..Len(text) :
           Like(SubSeq(text, k + 1, Len(text)), Tail(pattern))
  ELSE /\ text # <<>>
       /\ \/ Head(pattern) = "_"
          \/ ToLowerChar(Head(pattern)) = ToLowerChar(Head(text))
       /\ Like(Tail(text), Tail(pattern))

\* searchTerm := "%" + filter.Search + "%"
SearchTerm(search) == <<"%">> \o search \o <<"%">>

\* the WHERE clause ListDecisions builds from filter
ListDecisionsWhere(filter) ==
  {d \in DOMAIN decisions :
     /\ decisions[d].project_id =
          (IF filter.ProjectID # NoID THEN filter.ProjectID ELSE projectID)
     /\ filter.SessionID # NoID => decisions[d].session_id = filter.SessionID
     /\ filter.Category # <<>> => decisions[d].category = filter.Category
     /\ filter.Status # "" => decisions[d].status = filter.Status
     /\ filter.Search # <<>> =>
          \/ Like(decisions[d].decision, SearchTerm(filter.Search))
          \/ Like(decisions[d].rationale, SearchTerm(filter.Search))}

\* ORDER BY created_at DESC over the decisions in rows
RECURSIVE OrderByCreatedAtDesc(_)
OrderByCreatedAtDesc(rows) ==
  IF rows = {} THEN <<>>
  ELSE LET newest == CHOOSE d \in rows :
                       \A e \in rows :
                         decisions[e].created_at <= decisions[d].created_at
       IN <<newest>> \o OrderByCreatedAtDesc(rows \ {newest})

\* LIMIT and OFFSET as ListDecisions appends them: LIMIT when filter.Limit > 0,
\* OFFSET when there is a LIMIT and filter.Offset > 0
LimitOffset(list, limit, offset) ==
  IF limit > 0
    THEN LET skip == IF offset > 0 THEN offset ELSE 0
             last == IF skip + limit < Len(list) THEN skip + limit ELSE Len(list)
         IN SubSeq(list, skip + 1, last)
    ELSE list

\* ListDecisions(filter): the ids of the decisions returned, in their order
ListDecisions(filter) ==
  LimitOffset(OrderByCreatedAtDesc(ListDecisionsWhere(filter)),
              filter.Limit, filter.Offset)

\* a call op(arg) of a query that returned list and err: it changes no variable
\* but ret, which keeps the argument beside the result
QueryCall(op, arg, list, err) ==
  /\ ret' = [op |-> op, id |-> NoID, err |-> err, out |-> list, was |-> "",
             via |-> "", arg |-> arg]
  /\ UNCHANGED <<dbvars, mgrvars, uivars, stepvars>>

ListDecisionsCall(filter) ==
  QueryCall("ListDecisions", filter, ListDecisions(filter), "")

\* ListSessions(): ListSessionsByProject(db.projectID)
ListSessions == {s \in DOMAIN sessions : sessions[s].project_id = projectID}

\* ListNotes(): ListNotesByProject(db.projectID)
ListNotes == {n \in DOMAIN notes : notes[n].project_id = projectID}

\* ListNotesBySession(sessionID): FROM notes WHERE session_id = ?
ListNotesBySession(sessionID) ==
  {n \in DOMAIN notes : notes[n].session_id = sessionID}

\* the calls of the list operations that take no project
ListSessionsCall == QueryCall("ListSessions", NoID, ListSessions, "")
ListNotesCall == QueryCall("ListNotes", NoID, ListNotes, "")
ListNotesBySessionCall(sessionID) ==
  QueryCall("ListNotesBySession", sessionID, ListNotesBySession(sessionID), "")
ListOverridesForDecisionCall(decisionID) ==
  QueryCall("ListOverridesForDecision", decisionID,
            ListOverridesForDecision(decisionID), "")

\* strings.ToLower(query) on the characters of the alphabet
ToLower(query) == [i \in DOMAIN query |-> ToLowerChar(query[i])]

\* SQLite's LOWER(text): ASCII letters in lower case
Lower(text) == [i \in DOMAIN text |-> ToLowerChar(text[i])]

\* strings.Fields(s): the maximal runs of characters of s that hold no space
RECURSIVE Fields(_)
Fields(s) ==
  IF s = <<>> THEN <<>>
  ELSE IF Head(s) = " " THEN Fields(Tail(s))
  ELSE LET n == IF \E i \in DOMAIN s : s[i] = " "
                  THEN (CHOOSE i \in DOMAIN s :
                          s[i] = " " /\ \A j \in 1..(i - 1) : s[j] # " ") - 1
                  ELSE Len(s)
       IN <<SubSeq(s, 1, n)>> \o Fields(SubSeq(s, n + 1, Len(s)))

\* len(word): the bytes of word in UTF-8, two for the accented letter
RECURSIVE ByteLen(_)
ByteLen(word) ==
  IF word = <<>> THEN 0
  ELSE (IF Head(word) = "é" THEN 2 ELSE 1) + ByteLen(Tail(word))

\* the words FindRelevantDecisions keeps of query: if len(word) < 3 { continue }
SignificantWords(query) ==
  SelectSeq(Fields(ToLower(query)), LAMBDA word : ByteLen(word) >= 3)

\* WHERE project_id = ? AND status = 'active' AND (LOWER(decision) LIKE ? OR
\* LOWER(category) LIKE ? OR ...), one pair of conditions for each word
FindRelevantWhere(words) ==
  {d \in DOMAIN decisions :
     /\ decisions[d].project_id = projectID
     /\ decisions[d].status = DecisionStatusActive
     /\ \E i \in DOMAIN words :
          \/ Like(Lower(decisions[d].decision), SearchTerm(words[i]))
          \/ Like(Lower(decisions[d].category), SearchTerm(words[i]))}

\* FindRelevantDecisions(query): the ids of the decisions returned, in their
\* order; nil without a query to the store when no word is kept
FindRelevantDecisions(query) ==
  IF SignificantWords(query) = <<>> THEN <<>>
  ELSE LimitOffset(OrderByCreatedAtDesc(FindRelevantWhere(SignificantWords(query))),
                   10, 0)

FindRelevantDecisionsCall(query) ==
  QueryCall("FindRelevantDecisions", query, FindRelevantDecisions(query), "")

\* COUNT(o.id) of the group of decision d in decisions JOIN overrides
OverrideCount(d) ==
  Cardinality({o \in DOMAIN overrides : overrides[o].decision_id = d})

\* the groups GetOverridePatterns selects: FROM decisions d JOIN overrides o ON
\* d.id = o.decision_id WHERE d.project_id = ? GROUP BY d.id HAVING
\* override_count >= ?
OverridePatternGroupsOuterJoin(minOverrides) ==
  {d \in DOMAIN decisions :
     /\ decisions[d].project_id = projectID
     /\ OverrideCount(d) >= minOverrides}
OverridePatternGroups(minOverrides) ==
  {d \in DOMAIN decisions :
     /\ \E o \in DOMAIN overrides : overrides[o].decision_id = d
     /\ decisions[d].project_id = projectID
     /\ OverrideCount(d) >= minOverrides}

\* ORDER BY override_count DESC: every order of groups that it allows, groups
\* of one count in any order
OrdersByCountDesc(groups) ==
  {list \in [1..Cardinality(groups) -> groups] :
     /\ \A i, j \in DOMAIN list : i # j => list[i] # list[j]
     /\ \A i, j \in DOMAIN list :
          i < j => OverrideCount(list[i]) >= OverrideCount(list[j])}

\* GetOverridePatterns(minOverrides): the decisions returned, each with its
\* count
GetOverridePatternsCall(minOverrides) ==
  \E list \in OrdersByCountDesc(OverridePatternGroups(minOverrides)) :
    QueryCall("GetOverridePatterns", minOverrides,
              [i \in DOMAIN list |->
                 [Decision |-> list[i], OverrideCount |-> OverrideCount(list[i])]],
              "")

\* the texts of the decisions that are listed, and what callers search for
TextSQL == <<"S", "Q", "L">>
TextOrm == <<"o", "r", "m">>
TextDb == <<"d", "b">>
TextApi == <<"A", "P", "I">>

\* what a caller passes to CreateDecision before listing: in another stored
\* project or the bound one, in a stored session or none, with one of two texts
ListedDecisionInputs ==
  {d \in [ID : {NoID}, ProjectID : (DOMAIN projects \ {projectID}) \cup {NoID},
          SessionID : DOMAIN sessions \cup {NoID},
          Category : {TextDb, TextApi}, Decision : {TextSQL, TextOrm},
          Rationale : {<<>>, TextSQL}, AlternativesRejected : {""},
          Status : {""}] :
     \/ d.Category = TextDb /\ d.Decision = TextSQL /\ d.Rationale = <<>>
     \/ d.Category = TextApi /\ d.Decision = TextOrm /\ d.Rationale = TextSQL}

\* the fields of filter that are present
PresentFields(filter) ==
  {k \in {"ProjectID", "SessionID"} : filter[k] # NoID}
    \cup {k \in {"Category", "Search"} : filter[k] # <<>>}
    \cup {k \in {"Status"} : filter[k] # ""}
    \cup {k \in {"Limit", "Offset"} : filter[k] # 0}

\* the filters callers pass to ListDecisions: at most two fields present
DecisionFilters ==
  {filter \in [ProjectID : (DOMAIN projects \ {projectID}) \cup {NoID},
               SessionID : DOMAIN sessions \cup {NoID},
               Category : {<<>>, TextDb},
               Status : {"", DecisionStatusActive},
               Search : {<<>>, <<"s", "q", "l">>, <<"_">>},
               Limit : {0, 1}, Offset : {0, 1}] :
     Cardinality(PresentFields(filter)) <= 2}

\* what a caller passes to CreateDecision before asking for the relevant ones
TextNee == <<"n", "é", "e">>

RelevantDecisionInputs ==
  {d \in [ID : {NoID}, ProjectID : (DOMAIN projects \ {projectID}) \cup {NoID},
          SessionID : {NoID}, Category : {TextDb, TextApi},
          Decision : {TextSQL, TextNee}, Rationale : {<<>>},
          AlternativesRejected : {""}, Status : {""}] :
     \/ d.Category = TextDb /\ d.Decision = TextSQL
     \/ d.Category = TextApi /\ d.Decision = TextNee}

\* the queries callers pass to FindRelevantDecisions: none, a short word, a
\* category in lower case, a short word and a text, a word with an underscore,
\* a word of two characters in three bytes, a word no decision holds
RelevantQueries ==
  {<<>>, <<"d", "b">>, <<"a", "p", "i">>,
   <<"d", "b", " ", "S", "q", "l">>, <<"s", "_", "l">>,
   <<"n", "é">>, <<"x", "y", "z">>}

\* the engine with decisions that are created, archived, overridden and
\* searched by relevance
NextRelevant ==
  \/ CreateProject("other")
  \/ CreateSession("main", NoID, NoID)
  \/ \E d \in RelevantDecisionInputs : CreateDecision(d)
  \/ \E id \in DOMAIN decisions : ArchiveDecision(id)
  \/ \E id \in DOMAIN decisions, s \in DOMAIN sessions :
       OverrideDecision(id, s, "changed")
  \/ \E query \in RelevantQueries : FindRelevantDecisionsCall(query)

\* the ids callers give to the decisions and overrides they create before
\* mining: the next of a fixed series, up to MaxMined decisions and MaxMined + 1
\* overrides
MaxMined == 2
MinedDecisionIDs ==
  {<<0, 10 + n>> : n \in {Cardinality(DOMAIN decisions) + 1} \cap 1..MaxMined}
MinedOverrideIDs ==
  {<<0, 20 + n>> : n \in {Cardinality(DOMAIN overrides) + 1} \cap 1..(MaxMined + 1)}

MinedDecisionInputs ==
  [ID : MinedDecisionIDs, ProjectID : (DOMAIN projects \ {projectID}) \cup {NoID},
   SessionID : {NoID}, Category : {TextDb}, Decision : {TextSQL},
   Rationale : {<<>>}, AlternativesRejected : {""}, Status : {""}]

\* the engine with decisions that are created and overridden, and mined for
\* the ones overridden often
NextPatterns ==
  \/ CreateProject("other")
  \/ GetOrCreateSession("main")
  \/ \E d \in MinedDecisionInputs : CreateDecision(d)
  \/ \E o \in MinedOverrideIDs, id \in DOMAIN decisions, s \in DOMAIN sessions :
       CreateOverride(o, id, s, "changed")
  \/ \E minOverrides \in 0..2 : GetOverridePatternsCall(minOverrides)

\* what callers pass as outcome and as failure reason of an attempt
OutcomeInputs ==
  {"", AttemptOutcomePending, AttemptOutcomeWorked, AttemptOutcomeFailed,
   AttemptOutcomePartial, "bogus"}
FailureReasons == {"", "timeout"}

\* the engine with attempts that are created, given an outcome and deleted
NextAttempt ==
  \/ GetOrCreateSession("main")
  \/ \E s \in DOMAIN sessions \cup {NoID}, o \in OutcomeInputs,
        r \in FailureReasons : CreateAttempt(NoID, s, o, r)
  \/ \E id \in DOMAIN attempts \cup {GhostID}, o \in OutcomeInputs,
        r \in FailureReasons : UpdateAttemptOutcome(id, o, r)
  \/ \E id \in DOMAIN attempts \cup {GhostID} : MarkAttemptWorked(id)
  \/ \E id \in DOMAIN attempts \cup {GhostID}, r \in FailureReasons :
       MarkAttemptFailed(id, r)
  \/ \E id \in DOMAIN attempts \cup {GhostID}, r \in FailureReasons :
       MarkAttemptPartial(id, r)
  \/ \E id \in DOMAIN attempts \cup {GhostID} : DeleteAttempt(id)

\* the project paths GenerateProjectSlug is called with: every string of up
\* to MaxLen characters over a separator, a dot, an upper-case letter, a space
\* and a character that is dropped, and three longer paths
MaxLen == 3
SlugAlphabet == {"/", ".", "A", " ", "!"}
PathUsers ==
  <<"/", "U", "s", "e", "r", "s", "/", "T", "e", "s", "t", "/", "P", "r", "o",
    "j", "e", "c", "t", "s", "/", "M", "y", "P", "r", "o", "j", "e", "c", "t">>
PathBare == <<"m", "y", "p", "r", "o", "j", "e", "c", "t">>
PathMixed == <<"/", "r", "/", "m", "y", "_", "a", "p", "p", "-", "2">>
SlugPaths ==
  UNION {[1..n -> SlugAlphabet] : n \in 0..MaxLen}
    \cup {PathUsers, PathBare, PathMixed}

\* GenerateProjectSlug on each of these paths, computed once
SlugOf == [path \in SlugPaths |-> GenerateProjectSlug(path)]

GenerateProjectSlugCall(path) ==
  QueryCall("GenerateProjectSlug", path, SlugOf[path], "")

\* callers that only compute slugs
NextSlug == \E path \in SlugPaths : GenerateProjectSlugCall(path)

\* an engine that holds a second project: sessions, decisions and notes are
\* created in either project, overrides for any decision, and the list
\* operations are called with no project named
ScopedDecisionInputs ==
  {d \in DecisionInputs({NoID, CallerChosenID}, ProjectArgs, {NoID}) :
     d.Status = ""}

NoFilter ==
  [ProjectID |-> NoID, SessionID |-> NoID, Category |-> <<>>, Status |-> "",
   Search |-> <<>>, Limit |-> 0, Offset |-> 0]

NextScope ==
  \/ \E n \in ProjectNames : CreateProject(n)
  \/ \E n \in SessionNames, q \in ProjectArgs : CreateSession(n, NoID, q)
  \/ \E d \in ScopedDecisionInputs : CreateDecision(d)
  \/ \E id \in DecisionArgs, s \in SessionArgs :
       CreateOverride(NoID, id, s, "changed")
  \/ \E q \in ProjectArgs, s \in SessionArgs : CreateNote(q, s, "note")
  \/ ListDecisionsCall(NoFilter)
  \/ ListSessionsCall
  \/ ListNotesCall
  \/ \E s \in SessionArgs : ListNotesBySessionCall(s)
  \/ \E id \in DecisionArgs : ListOverridesForDecisionCall(id)

\* the engine with decisions that are created, archived and listed
NextList ==
  \/ CreateProject("other")
  \/ CreateSession("main", NoID, NoID)
  \/ \E d \in ListedDecisionInputs : CreateDecision(d)
  \/ \E id \in DOMAIN decisions : ArchiveDecision(id)
  \/ \E filter \in DecisionFilters : ListDecisionsCall(filter)

(***************************************************************************)
(* The handle manager (internal/ledger) under concurrent callers.          *)
(***************************************************************************)
\* database.New succeeds at most this many times
MaxHandles == 2

Callers == {"t1", "t2"}
None == "none"
NoHandle == <<>>

\* Manager.baseDir
BaseDir == "~/.ledger"

\* New: filepath.Join(baseDir, projectSlug, "ledger.db")
DbPathIgnoringSlug(baseDir, projectSlug) == <<baseDir, <<>>, "ledger.db">>
DbPath(baseDir, projectSlug) == <<baseDir, projectSlug, "ledger.db">>

\* how database.New may end: with a handle, with an error of os.MkdirAll (no
\* file yet), with an error of Ping or of a statement of initSchema (the file
\* is there, no version is recorded), or with an error of ensureProject (after
\* initSchema); on every error the connection is closed again
NewOutcomes == {"ok", "mkdir", "schema", "project"}

\* a store file that was just created: no row, no version recorded in
\* schema_version, no migration applied, no row in projects and no project
\* id generated yet
FreshStore ==
  [rows |-> {}, version |-> 0, migrations |-> 0, projects |-> {}, ids |-> 0]

\* migrateV1 on the contents store of a store file: the tables are created if
\* they do not exist and version 1 is inserted into schema_version, whose
\* primary key rejects a second row for version 1
migrateV1(store) ==
  IF store.version >= 1
    THEN [store |-> store, err |-> "constraint"]
    ELSE [store |-> [store EXCEPT !.version = 1, !.migrations = @ + 1],
          err |-> ""]

\* initSchema, line 27: if currentVersion < 1
NeedsMigrationAlways(currentVersion) == TRUE
NeedsMigration(currentVersion) == currentVersion < 1

\* initSchema on the contents store of a store file
initSchema(store) ==
  LET currentVersion == store.version
  IN IF NeedsMigration(currentVersion) THEN migrateV1(store)
     ELSE [store |-> store, err |-> ""]

\* ensureProject without its SELECT: the INSERT of CreateProject is run on
\* every open and projects.name is UNIQUE
ensureProjectAlwaysInserting(store, name, path) ==
  IF \E p \in store.projects : p.name = name
    THEN [store |-> store, id |-> <<>>, err |-> "constraint"]
    ELSE [store |-> [store EXCEPT
                       !.projects = @ \cup {[id |-> <<store.ids + 1>>,
                                             name |-> name, path |-> path]},
                       !.ids = @ + 1],
          id |-> <<store.ids + 1>>, err |-> ""]

\* ensureProject on the contents store of a store file: SELECT id FROM
\* projects WHERE name = ?; a row found has its path updated and its id
\* returned, otherwise CreateProject inserts a row under a generated id
ensureProject(store, name, path) ==
  LET existing == {p \in store.projects : p.name = name}
  IN IF existing # {}
       THEN LET row == CHOOSE p \in existing : TRUE
            IN [store |-> [store EXCEPT
                             !.projects = (@ \ {row})
                                           \cup {[row EXCEPT !.path = path]}],
                id |-> row.id, err |-> ""]
       ELSE [store |-> [store EXCEPT
                          !.projects = @ \cup {[id |-> <<store.ids + 1>>,
                                                name |-> name, path |-> path]},
                          !.ids = @ + 1],
             id |-> <<store.ids + 1>>, err |-> ""]

\* the handle database.New allocates next
NewHandle == <<Cardinality(DOMAIN handles) + 1>>

\* how db.Close() may end: conn.Close() returns nil or an error; the
\* connection is closed in both cases
CloseOutcomes == {"", "close failed"}

\* a store holds at most this many rows written by callers
MaxRows == 1

InitMgr ==
  /\ databases = <<>>
  /\ mu = [writer |-> None, readers |-> {}]
  /\ handles = <<>>
  /\ disk = <<>>
  /\ pc = [t \in Callers |-> "idle"]
  /\ call = [t \in Callers |-> <<>>]
  /\ hist = [p \in Paths |-> [news |-> 0, got |-> {}]]

\* m.mu.RLock(), m.mu.RUnlock(), m.mu.Lock(), m.mu.Unlock()
CanRLock == mu.writer = None
RLock(t) == [mu EXCEPT !.readers = @ \cup {t}]
RUnlock(t) == [mu EXCEPT !.readers = @ \ {t}]
CanLock == mu.writer = None /\ mu.readers = {}
Lock(t) == [mu EXCEPT !.writer = t]
Unlock(t) == [mu EXCEPT !.writer = None]

\* GetDB, line 41: a caller enters GetDB(projectPath) and takes the read lock
GetDB_RLock(t, projectPath) ==
  /\ pc[t] = "idle"
  /\ CanRLock
  /\ mu' = RLock(t)
  /\ pc' = [pc EXCEPT ![t] = "GetDB_rlocked"]
  /\ call' = [call EXCEPT ![t] = projectPath]
  /\ UNCHANGED <<databases, handles, disk, hist, dbvars, uivars, stepvars, ret>>

\* GetDB, lines 42-46: the lookup under the read lock; a hit returns the handle
GetDB_Lookup(t) ==
  /\ pc[t] = "GetDB_rlocked"
  /\ mu' = RUnlock(t)
  /\ LET p == call[t]
     IN IF p \in DOMAIN databases
          THEN /\ ret' = MgrRet("GetDB", "", "lookup", {})
               /\ hist' = [hist EXCEPT ![p].got = @ \cup {databases[p]}]
               /\ pc' = [pc EXCEPT ![t] = "idle"]
               /\ call' = [call EXCEPT ![t] = <<>>]
          ELSE /\ pc' = [pc EXCEPT ![t] = "GetDB_miss"]
               /\ UNCHANGED <<call, hist, ret>>
  /\ UNCHANGED <<databases, handles, disk, dbvars, uivars, stepvars>>

\* no caller is inside a call
NotSelecting == [pc |-> "idle", name |-> "", row |-> Null]

InitStep ==
  /\ found = [t \in Callers |-> NoHandle]
  /\ selected = [t \in Callers |-> NotSelecting]
  /\ wrote = {}
  /\ committed = {}

\* GetDB, lines 42-46, step by step. The lookup under the read lock: on a hit
\* the handle is read from the map and the read lock released
GetDB_Hit(t) ==
  /\ pc[t] = "GetDB_rlocked"
  /\ call[t] \in DOMAIN databases
  /\ mu' = RUnlock(t)
  /\ found' = [found EXCEPT ![t] = databases[call[t]]]
  /\ pc' = [pc EXCEPT ![t] = "GetDB_hit"]
  /\ UNCHANGED <<databases, handles, disk, call, hist, dbvars, uivars, selected,
                 wrote, committed, ret>>

\* on a miss the read lock is released and the caller goes for the write lock
GetDB_Miss(t) ==
  /\ pc[t] = "GetDB_rlocked"
  /\ call[t] \notin DOMAIN databases
  /\ mu' = RUnlock(t)
  /\ pc' = [pc EXCEPT ![t] = "GetDB_miss"]
  /\ UNCHANGED <<databases, handles, disk, call, hist, dbvars, uivars, stepvars,
                 ret>>

\* GetDB, line 44: return db, nil: the caller receives the handle
GetDB_Return(t) ==
  /\ pc[t] = "GetDB_hit"
  /\ ret' = [MgrRet("GetDB", "", "lookup", {}) EXCEPT !.id = found[t]]
  /\ found' = [found EXCEPT ![t] = NoHandle]
  /\ pc' = [pc EXCEPT ![t] = "idle"]
  /\ call' = [call EXCEPT ![t] = <<>>]
  /\ UNCHANGED <<databases, mu, handles, disk, hist, dbvars, uivars, selected, wrote,
                 committed>>

\* GetDB, line 49: m.mu.Lock()
GetDB_Lock(t) ==
  /\ pc[t] = "GetDB_miss"
  /\ CanLock
  /\ mu' = Lock(t)
  /\ pc' = [pc EXCEPT ![t] = "GetDB_locked"]
  /\ UNCHANGED <<databases, handles, disk, call, hist, dbvars, uivars, stepvars, ret>>

\* GetDB, line 53: the second lookup, under the write lock
DoubleCheckSkipped(projectPath) == FALSE
DoubleCheck(projectPath) == projectPath \in DOMAIN databases

\* GetDB, lines 64-66: when database.New fails the error is returned and
\* m.databases is left as it is
NewFailedEvictsAll(dbs) == <<>>
NewFailed(dbs) == dbs

\* GetDB, lines 53-69 and the deferred Unlock: return the handle another caller
\* cached meanwhile, or run database.New and cache its handle
GetDB_Create(t) ==
  /\ pc[t] = "GetDB_locked"
  /\ mu' = Unlock(t)
  /\ pc' = [pc EXCEPT ![t] = "idle"]
  /\ call' = [call EXCEPT ![t] = <<>>]
  /\ LET p == call[t]
         store == DbPath(BaseDir, ProjectSlugs[p])
     IN IF DoubleCheck(p)
          THEN /\ ret' = MgrRet("GetDB", "", "recheck", {})
               /\ hist' = [hist EXCEPT ![p].got = @ \cup {databases[p]}]
               /\ UNCHANGED <<databases, handles, disk>>
          ELSE \E outcome \in NewOutcomes :
                 LET file == IF store \in DOMAIN disk THEN disk[store]
                             ELSE FreshStore
                     init == initSchema(file)
                     project == ensureProject(init.store, ProjectSlugs[p], p)
                 IN
                 IF outcome = "ok" /\ init.err = "" /\ project.err = ""
                   THEN /\ Cardinality(DOMAIN handles) < MaxHandles
                        /\ handles' = With(handles, NewHandle,
                                           [store |-> store, open |-> TRUE,
                                            projectID |-> project.id])
                        /\ disk' = With(disk, store, project.store)
                        /\ databases' = With(databases, p, NewHandle)
                        /\ ret' = MgrRet("GetDB", "", "new", {})
                        /\ hist' = [hist EXCEPT ![p].news = @ + 1,
                                                ![p].got = @ \cup {NewHandle}]
                   ELSE /\ disk' = IF outcome = "mkdir" THEN disk
                                   ELSE IF outcome = "schema"
                                     THEN With(disk, store, file)
                                     ELSE With(disk, store, init.store)
                        /\ ret' = MgrRet("GetDB", "failed to open ledger database",
                                         IF outcome = "ok" /\ init.err = ""
                                           THEN "project name taken" ELSE "new",
                                         {})
                        /\ databases' = NewFailed(databases)
                        /\ UNCHANGED <<handles, hist>>
  /\ UNCHANGED <<dbvars, uivars, stepvars>>

\* CloseDB, line 78: delete(m.databases, projectPath)
EvictAll(dbs, projectPath) == <<>>
Evict(dbs, projectPath) == Without(dbs, {projectPath})

\* CloseDB(projectPath): under the write lock, from Lock to the deferred Unlock
CloseDB(t, projectPath) ==
  /\ pc[t] = "idle"
  /\ CanLock
  /\ IF projectPath \in DOMAIN databases
       THEN \E outcome \in CloseOutcomes :
              /\ databases' = Evict(databases, projectPath)
              /\ handles' = [handles EXCEPT ![databases[projectPath]].open = FALSE]
              /\ ret' = MgrRet("CloseDB", outcome, "hit",
                               IF outcome = "" THEN {}
                               ELSE {databases[projectPath]})
              /\ hist' = [hist EXCEPT ![projectPath] = [news |-> 0, got |-> {}]]
       ELSE /\ ret' = MgrRet("CloseDB", "", "miss", {})
            /\ UNCHANGED <<databases, handles, hist>>
  /\ UNCHANGED <<mu, pc, call, disk, dbvars, uivars, stepvars>>

\* CloseAll, lines 89-96: the loop over m.databases in the order order, where
\* Close fails on the handles in failing. The result is the map and the
\* handles after the loop, and lastErr.
RECURSIVE CloseAllLoopReturningFirstError(_, _, _, _, _)
CloseAllLoopReturningFirstError(order, failing, dbs, hs, lastErr) ==
  IF order = <<>> THEN [dbs |-> dbs, hs |-> hs, lastErr |-> lastErr]
  ELSE LET path == Head(order)
           db == dbs[path]
       IN IF db \in failing
            THEN [dbs |-> dbs, hs |-> [hs EXCEPT ![db].open = FALSE],
                  lastErr |-> "close failed"]
            ELSE CloseAllLoopReturningFirstError(
                   Tail(order), failing, Without(dbs, {path}),
                   [hs EXCEPT ![db].open = FALSE], lastErr)
RECURSIVE CloseAllLoop(_, _, _, _, _)
CloseAllLoop(order, failing, dbs, hs, lastErr) ==
  IF order = <<>> THEN [dbs |-> dbs, hs |-> hs, lastErr |-> lastErr]
  ELSE LET path == Head(order)
           db == dbs[path]
       IN CloseAllLoop(Tail(order), failing,
                       Without(dbs, {path}),
                       [hs EXCEPT ![db].open = FALSE],
                       IF db \in failing THEN "close failed" ELSE lastErr)

\* the orders in which range may visit the keys of m.databases
IterationOrders(dbs) ==
  {order \in [1..Cardinality(DOMAIN dbs) -> DOMAIN dbs] :
     \A i, j \in DOMAIN order : i # j => order[i] # order[j]}

\* CloseAll(): under the write lock, from Lock to the deferred Unlock
CloseAll(t) ==
  /\ pc[t] = "idle"
  /\ CanLock
  /\ \E order \in IterationOrders(databases), failing \in SUBSET Range(databases) :
       LET r == CloseAllLoop(order, failing, databases, handles, "")
       IN /\ databases' = r.dbs
          /\ handles' = r.hs
          /\ ret' = MgrRet("CloseAll", r.lastErr, "", failing)
          /\ hist' = [p \in Paths |->
                        IF p \in DOMAIN r.dbs THEN hist[p] ELSE [news |-> 0, got |-> {}]]
  /\ UNCHANGED <<mu, pc, call, disk, dbvars, uivars, stepvars>>

\* a caller writes a row through a handle it was given: the row goes to the
\* store the handle is connected to. The row is named after the handle.
WriteThrough(h) ==
  /\ handles[h].open
  /\ h \notin disk[handles[h].store].rows
  /\ Cardinality(disk[handles[h].store].rows) < MaxRows
  /\ disk' = [disk EXCEPT ![handles[h].store].rows = @ \cup {h}]
  /\ UNCHANGED <<databases, mu, handles, pc, call, hist, dbvars, uivars, stepvars, ret>>

\* what a caller reads through handle h: the rows of its store
ReadThrough(h) == disk[handles[h].store].rows

\* what the list operations return through handle h: the rows of its store
\* whose project_id is h.ProjectID; a row carries the ProjectID of the handle
\* it was written through
ListThrough(h) ==
  {r \in disk[handles[h].store].rows :
     handles[r].projectID = handles[h].projectID}

\* IsInitialized(projectPath), the value: os.Stat of the store file of the
\* path's slug succeeds
IsInitializedFromCache(projectPath) == projectPath \in DOMAIN databases
IsInitialized(projectPath) ==
  DbPath(BaseDir, ProjectSlugs[projectPath]) \in DOMAIN disk

\* a caller calls IsInitialized(projectPath); it takes no lock
IsInitializedCall(t, projectPath) ==
  /\ pc[t] = "idle"
  /\ ret' = [MgrRet("IsInitialized", "",
                    IF IsInitialized(projectPath) THEN "true" ELSE "false", {})
               EXCEPT !.id = projectPath]
  /\ UNCHANGED <<databases, mu, handles, disk, pc, call, hist, dbvars, uivars, stepvars>>

NextMgr ==
  \/ \E t \in Callers, p \in Paths : GetDB_RLock(t, p)
  \/ \E t \in Callers : GetDB_Lookup(t)
  \/ \E t \in Callers : GetDB_Lock(t)
  \/ \E t \in Callers : GetDB_Create(t)
  \/ \E t \in Callers, p \in Paths : CloseDB(t, p)
  \/ \E t \in Callers : CloseAll(t)

\* the manager with the return of GetDB as a step of its own
NextRace ==
  \/ \E t \in Callers, p \in Paths : GetDB_RLock(t, p)
  \/ \E t \in Callers : GetDB_Hit(t)
  \/ \E t \in Callers : GetDB_Miss(t)
  \/ \E t \in Callers : GetDB_Return(t)
  \/ \E t \in Callers : GetDB_Lock(t)
  \/ \E t \in Callers : GetDB_Create(t)
  \/ \E t \in Callers, p \in Paths : CloseDB(t, p)
  \/ \E t \in Callers : CloseAll(t)

\* the manager with the stores' contents: one caller opens and closes, any
\* caller asks IsInitialized (also while a GetDB is under way), and every open
\* handle writes
NextStore ==
  \/ \E p \in Paths : GetDB_RLock("t1", p)
  \/ GetDB_Lookup("t1")
  \/ GetDB_Lock("t1")
  \/ GetDB_Create("t1")
  \/ \E p \in Paths : CloseDB("t1", p)
  \/ CloseAll("t1")
  \/ \E t \in Callers, p \in Paths : IsInitializedCall(t, p)
  \/ \E h \in DOMAIN handles : WriteThrough(h)

(***************************************************************************)
(* One storage engine under concurrent callers: Transaction, Close and a   *)
(* read that is not part of a transaction.                                 *)
(***************************************************************************)
\* Transaction is called at most this many times
MaxTx == 3

InitTx ==
  /\ dbmu = None
  /\ conn = "open"
  /\ txpc = [t \in Callers |-> "idle"]
  /\ nested = [t \in Callers |-> FALSE]
  /\ txseq = 0
  /\ txno = [t \in Callers |-> 0]
  /\ inflight = {}
  /\ readSaw = [t \in Callers |-> {}]

\* the variables no call on the engine's mutex touches
txframe == <<projects, sessions, decisions, overrides, attempts, notes,
             projectID, nextID, now, mgrvars, uivars, stepvars>>

\* the result of a call on the engine
TxRet(op, err, via) ==
  [op |-> op, id |-> NoID, err |-> err, out |-> NoID, was |-> "", via |-> via]

\* where a call returns to: the callback that made it, or the caller
ReturnTo(t) == IF nested[t] THEN "fn" ELSE "idle"

\* db.mu.Lock() can be taken: nobody holds the mutex (it is not reentrant)
TxCanLockAlways == TRUE
TxCanLock == dbmu = None

\* a caller, or the callback of its running Transaction, calls db.Transaction
Transaction_Call(t) ==
  /\ txpc[t] \in {"idle", "fn"}
  /\ txseq < MaxTx
  /\ txseq' = txseq + 1
  /\ txno' = [txno EXCEPT ![t] = txseq + 1]
  /\ nested' = [nested EXCEPT ![t] = (txpc[t] = "fn")]
  /\ txpc' = [txpc EXCEPT ![t] = "Transaction_wait"]
  /\ UNCHANGED <<dbmu, conn, inflight, readSaw, ret, txframe>>

\* Transaction, line 181: db.mu.Lock()
Transaction_Lock(t) ==
  /\ txpc[t] = "Transaction_wait"
  /\ TxCanLock
  /\ dbmu' = t
  /\ txpc' = [txpc EXCEPT ![t] = "Transaction_locked"]
  /\ UNCHANGED <<conn, nested, txseq, txno, inflight, readSaw, ret, txframe>>

\* Transaction, lines 184-187: db.conn.Begin(); on a closed connection it fails
\* and Transaction returns the error (the deferred Unlock runs)
Transaction_Begin(t) ==
  /\ txpc[t] = "Transaction_locked"
  /\ IF conn = "open"
       THEN /\ inflight' = inflight \cup {txno[t]}
            /\ txpc' = [txpc EXCEPT ![t] = "fn"]
            /\ UNCHANGED <<dbmu, nested, ret>>
       ELSE /\ dbmu' = None
            /\ txpc' = [txpc EXCEPT ![t] = ReturnTo(t)]
            /\ nested' = [nested EXCEPT ![t] = FALSE]
            /\ ret' = TxRet("Transaction", "failed to begin transaction", "")
            /\ UNCHANGED inflight
  /\ UNCHANGED <<conn, txseq, txno, readSaw, txframe>>

\* Transaction, lines 189-194: fn returns; Rollback on its error, Commit
\* otherwise; then the deferred Unlock
Transaction_Return(t) ==
  /\ txpc[t] = "fn"
  /\ \E outcome \in {"commit", "rollback"} :
       ret' = TxRet("Transaction",
                    IF outcome = "rollback" THEN "fn failed" ELSE "", outcome)
  /\ inflight' = inflight \ {txno[t]}
  /\ dbmu' = None
  /\ txpc' = [txpc EXCEPT ![t] = ReturnTo(t)]
  /\ nested' = [nested EXCEPT ![t] = FALSE]
  /\ UNCHANGED <<conn, txseq, txno, readSaw, txframe>>

\* a caller, or the callback of its running Transaction, calls db.Close
Close_Call(t) ==
  /\ txpc[t] \in {"idle", "fn"}
  /\ nested' = [nested EXCEPT ![t] = (txpc[t] = "fn")]
  /\ txpc' = [txpc EXCEPT ![t] = "Close_wait"]
  /\ UNCHANGED <<dbmu, conn, txseq, txno, inflight, readSaw, ret, txframe>>

\* Close, lines 132-134: Lock, db.conn.Close(), the deferred Unlock
Close_Locked(t) ==
  /\ txpc[t] = "Close_wait"
  /\ TxCanLock
  /\ conn' = "closed"
  /\ txpc' = [txpc EXCEPT ![t] = ReturnTo(t)]
  /\ nested' = [nested EXCEPT ![t] = FALSE]
  /\ ret' = TxRet("Close", "", "")
  /\ UNCHANGED <<dbmu, txseq, txno, inflight, readSaw, txframe>>

\* GetDecision, lines 40-47: the query is issued on db.conn without db.mu
CanQueryWhenUnlocked == dbmu = None
CanQuery == TRUE

\* a caller calls GetDecision: db.conn.QueryRow
GetDecision_Start(t) ==
  /\ txpc[t] = "idle"
  /\ CanQuery
  /\ txpc' = [txpc EXCEPT ![t] = "GetDecision"]
  /\ readSaw' = [readSaw EXCEPT ![t] = inflight]
  /\ UNCHANGED <<dbmu, conn, nested, txseq, txno, inflight, ret, txframe>>

\* GetDecision, lines 49-70: Scan and return; via tells whether a transaction
\* that was in flight when the query was issued is still in flight
GetDecision_Return(t) ==
  /\ txpc[t] = "GetDecision"
  /\ ret' = TxRet("GetDecision",
                  IF conn = "closed" THEN "database is closed" ELSE "",
                  IF readSaw[t] \cap inflight # {} THEN "during transaction"
                  ELSE "")
  /\ txpc' = [txpc EXCEPT ![t] = "idle"]
  /\ readSaw' = [readSaw EXCEPT ![t] = {}]
  /\ UNCHANGED <<dbmu, conn, nested, txseq, txno, inflight, txframe>>

\* the callback of a running Transaction writes through its tx
Fn_Exec(t) ==
  /\ txpc[t] = "fn"
  /\ txno[t] \in inflight
  /\ wrote' = wrote \cup {txno[t]}
  /\ UNCHANGED <<dbvars, mgrvars, uivars, found, selected, committed, ret>>

\* how tx.Commit() may end: with nil or with an error of the store
CommitOutcomes == {"", "commit failed"}

\* Transaction, lines 189-194: what it returns and whether the writes made
\* through tx are committed, for the error fn returned and the one Commit
\* would return
TxEndCommittingAlways(fnErr, commitErr) == [err |-> fnErr, commit |-> TRUE]
TxEnd(fnErr, commitErr) ==
  IF fnErr # "" THEN [err |-> fnErr, commit |-> FALSE]
  ELSE [err |-> commitErr, commit |-> commitErr = ""]

\* Transaction, lines 189-194 with the writes of fn: fn returns; Rollback on
\* its error, Commit otherwise; then the deferred Unlock. via tells what fn
\* returned and id names the call
Transaction_Finish(t) ==
  /\ txpc[t] = "fn"
  /\ txno[t] \in inflight
  /\ \E fnErr \in {"", "fn failed"}, commitErr \in CommitOutcomes :
       LET end == TxEnd(fnErr, commitErr)
       IN /\ ret' = [TxRet("Transaction", end.err,
                           IF fnErr = "" THEN "fn returned nil"
                           ELSE "fn returned an error")
                       EXCEPT !.id = <<txno[t]>>]
          /\ committed' = IF end.commit /\ txno[t] \in wrote
                            THEN committed \cup {txno[t]} ELSE committed
  /\ inflight' = inflight \ {txno[t]}
  /\ dbmu' = None
  /\ txpc' = [txpc EXCEPT ![t] = ReturnTo(t)]
  /\ nested' = [nested EXCEPT ![t] = FALSE]
  /\ UNCHANGED <<conn, txseq, txno, readSaw, projects, sessions, decisions,
                 overrides, attempts, notes, projectID, nextID, now, mgrvars,
                 uivars, found, selected, wrote>>

\* the engine with transactions whose callbacks write
NextCommit ==
  \/ \E t \in Callers : Transaction_Call(t)
  \/ \E t \in Callers : Transaction_Lock(t)
  \/ \E t \in Callers : Transaction_Begin(t)
  \/ \E t \in Callers : Fn_Exec(t)
  \/ \E t \in Callers : Transaction_Finish(t)

NextTx ==
  \/ \E t \in Callers : Transaction_Call(t)
  \/ \E t \in Callers : Transaction_Lock(t)
  \/ \E t \in Callers : Transaction_Begin(t)
  \/ \E t \in Callers : Transaction_Return(t)
  \/ \E t \in Callers : Close_Call(t)
  \/ \E t \in Callers : Close_Locked(t)
  \/ \E t \in Callers : GetDecision_Start(t)
  \/ \E t \in Callers : GetDecision_Return(t)

(***************************************************************************)
(* GetOrCreateSession called by several callers on one engine: the SELECT  *)
(* and the INSERT are two statements, each atomic in the store.            *)
(***************************************************************************)
\* GetOrCreateSession(name), lines 283-286: the SELECT and its Scan
GetOrCreateSession_Select(t, name) ==
  /\ selected[t].pc = "idle"
  /\ selected' = [selected EXCEPT ![t] =
                    [pc |-> "selected", name |-> name,
                     row |-> IF SessionsNamed(name) # {}
                               THEN FirstSession(SessionsNamed(name))
                               ELSE Null]]
  /\ UNCHANGED <<dbvars, mgrvars, uivars, found, wrote, committed, ret>>

\* lines 288-293: a row was scanned and is returned
GetOrCreateSession_Found(t) ==
  /\ selected[t].pc = "selected"
  /\ selected[t].row # Null
  /\ ret' = [Ret("GetOrCreateSession", NoID, "", selected[t].row)
               EXCEPT !.via = "found"]
  /\ selected' = [selected EXCEPT ![t] = NotSelecting]
  /\ UNCHANGED <<dbvars, mgrvars, uivars, found, wrote, committed>>

\* lines 295-308: sql.ErrNoRows, so CreateSession inserts a session of that
\* name in the bound project and it is returned
GetOrCreateSession_Create(t) ==
  /\ selected[t].pc = "selected"
  /\ selected[t].row = Null
  /\ nextID < MaxIDs
  /\ LET id == generateID
         row == [project_id |-> projectID, name |-> selected[t].name,
                 parent_session_id |-> Null,
                 created_at |-> now, updated_at |-> now]
     IN IF ProjectFK(row.project_id)
          THEN /\ sessions' = With(sessions, id, row)
               /\ nextID' = nextID + 1
               /\ now' = now + 1
               /\ ret' = Ret("GetOrCreateSession", NoID, "", id)
          ELSE /\ UNCHANGED <<sessions, nextID, now>>
               /\ ret' = Ret("GetOrCreateSession", NoID, "constraint", NoID)
  /\ selected' = [selected EXCEPT ![t] = NotSelecting]
  /\ UNCHANGED <<projects, decisions, overrides, attempts, notes, projectID,
                 mgrvars, txvars, uivars, found, wrote, committed>>

\* several callers of GetOrCreateSession on one engine
NextDedup ==
  \/ \E t \in Callers, name \in LineageNames : GetOrCreateSession_Select(t, name)
  \/ \E t \in Callers : GetOrCreateSession_Found(t)
  \/ \E t \in Callers : GetOrCreateSession_Create(t)

(***************************************************************************)
(* The decision list panel (internal/ui).                                  *)
(***************************************************************************)
\* NewDecisionListPanel()
InitUI ==
  panel = [decisions |-> <<>>, cursor |-> 0, viewOffset |-> 0, height |-> 0]

\* the cursor after SetDecisions on a list of n decisions: moved back to the
\* last index when beyond it, and never below 0
ClampCursorOff(cursor, n) == cursor
ClampCursor(cursor, n) ==
  LET c == IF cursor >= n THEN n - 1 ELSE cursor
  IN IF c < 0 THEN 0 ELSE c

\* viewOffset after syncViewport() with the cursor at cursor
syncViewport(cursor, viewOffset, height) ==
  LET visibleLines == IF height - 2 < 1 THEN 1 ELSE height - 2
  IN IF cursor < viewOffset THEN cursor
     ELSE IF cursor >= viewOffset + visibleLines THEN cursor - visibleLines + 1
     ELSE viewOffset

\* SetSize(width, height)
SetSize(height) ==
  /\ panel' = [panel EXCEPT !.height = height]
  /\ ret' = Ret("SetSize", NoID, "", NoID)
  /\ UNCHANGED <<dbvars, mgrvars, stepvars>>

\* SetDecisions(decisions)
SetDecisions(list) ==
  /\ panel' = [panel EXCEPT !.decisions = list,
                            !.cursor = ClampCursor(panel.cursor, Len(list))]
  /\ ret' = Ret("SetDecisions", NoID, "", NoID)
  /\ UNCHANGED <<dbvars, mgrvars, stepvars>>

\* MoveUp()
MoveUp ==
  /\ panel' = IF panel.cursor > 0
                THEN [panel EXCEPT
                        !.cursor = panel.cursor - 1,
                        !.viewOffset = syncViewport(panel.cursor - 1,
                                                    panel.viewOffset, panel.height)]
                ELSE panel
  /\ ret' = Ret("MoveUp", NoID, "", NoID)
  /\ UNCHANGED <<dbvars, mgrvars, stepvars>>

\* MoveDown()
MoveDown ==
  /\ panel' = IF panel.cursor < Len(panel.decisions) - 1
                THEN [panel EXCEPT
                        !.cursor = panel.cursor + 1,
                        !.viewOffset = syncViewport(panel.cursor + 1,
                                                    panel.viewOffset, panel.height)]
                ELSE panel
  /\ ret' = Ret("MoveDown", NoID, "", NoID)
  /\ UNCHANGED <<dbvars, mgrvars, stepvars>>

\* Selected(): the decision at the cursor (slices count from 0), or nil
Selected ==
  IF panel.cursor >= 0 /\ panel.cursor < Len(panel.decisions)
    THEN panel.decisions[panel.cursor + 1]
    ELSE Null

SelectedCall ==
  /\ ret' = Ret("Selected", NoID, "", Selected)
  /\ UNCHANGED <<dbvars, mgrvars, uivars, stepvars>>

\* the lists the interface shows: the first n of MaxList decisions
MaxList == 3
ShownLists == {[i \in 1..n |-> <<i>>] : n \in 0..MaxList}

\* the interface using only the panel
NextPanel ==
  \/ \E list \in ShownLists : SetDecisions(list)
  \/ \E height \in {0, 4} : SetSize(height)
  \/ MoveUp
  \/ MoveDown
  \/ SelectedCall

Init == InitDB /\ InitMgr /\ InitTx /\ InitUI /\ InitStep

SpecDB == Init /\ [][NextDB]_vars

SpecProj == Init /\ [][NextProj]_vars

SpecSess == Init /\ [][NextSess]_vars

SpecLineage == Init /\ [][NextLineage]_vars

SpecMut == Init /\ [][NextMut]_vars

SpecRead == Init /\ [][NextRead]_vars

SpecList == Init /\ [][NextList]_vars

SpecRelevant == Init /\ [][NextRelevant]_vars

SpecPatterns == Init /\ [][NextPatterns]_vars

SpecAttempt == Init /\ [][NextAttempt]_vars

SpecSlug == Init /\ [][NextSlug]_vars

SpecPanel == Init /\ [][NextPanel]_vars

SpecRace == Init /\ [][NextRace]_vars

SpecDedup == Init /\ [][NextDedup]_vars

SpecCommit == Init /\ [][NextCommit]_vars

SpecOverride == Init /\ [][NextOverride]_vars

SpecScope == Init /\ [][NextScope]_vars

SpecMgr == Init /\ [][NextMgr]_vars

SpecStore == Init /\ [][NextStore]_vars

SpecTx == Init /\ [][NextTx]_vars

\* the scheduler runs every caller that can take a step; sync.RWMutex hands the
\* lock to a caller that keeps waiting for it
SpecTxFair ==
  /\ SpecTx
  /\ \A t \in Callers :
       /\ SF_vars(Transaction_Lock(t))
       /\ WF_vars(Transaction_Begin(t))
       /\ WF_vars(Transaction_Return(t))
       /\ SF_vars(Close_Locked(t))
       /\ WF_vars(GetDecision_Return(t))

(***************************************************************************)
(* Properties of the handle manager, checked under SpecMgr; those about    *)
(* the store files (C9, C13, C17) under SpecStore.                         *)
(***************************************************************************)
\* C7: for every path p, all GetDB(p) calls made since p's handle was last
\* closed returned one and the same handle, the one the cache holds for p,
\* also when callers race on the first request; database.New produced a handle
\* for p exactly once, and the cache holds that one entry for p.
C7_OneHandlePerPath ==
  \A p \in Paths :
    /\ Cardinality(hist[p].got) <= 1
    /\ p \in DOMAIN databases =>
         (hist[p].news = 1 /\ hist[p].got \subseteq {databases[p]})
    /\ p \notin DOMAIN databases => hist[p] = [news |-> 0, got |-> {}]

\* a caller that missed under the read lock found, under the write lock, the
\* handle a racing caller had cached, and returned it
C7_RacingCallerReused ==
  /\ ret.op = "GetDB" /\ ret.via = "recheck"
  /\ \E p \in DOMAIN databases :
       hist[p].news = 1 /\ hist[p].got = {databases[p]}

\* C8: the cache never holds two distinct open handles on the same on-disk
\* store, whatever path strings GetDB was called with.
C8_OneOpenHandlePerStore ==
  \A p1, p2 \in DOMAIN databases :
    (/\ handles[databases[p1]].open /\ handles[databases[p2]].open
     /\ handles[databases[p1]].store = handles[databases[p2]].store)
    => databases[p1] = databases[p2]

\* the state C8 forbids: a directory and the same directory with a trailing
\* separator are both cached, with two open handles on one ledger.db
C8_TwoHandlesOneStore ==
  /\ {PathA, PathASlash} \subseteq DOMAIN databases
  /\ databases[PathA] # databases[PathASlash]
  /\ handles[databases[PathA]].open /\ handles[databases[PathASlash]].open
  /\ handles[databases[PathA]].store = handles[databases[PathASlash]].store

\* C9: two cached paths that resolve to different slugs have distinct handles
\* on distinct stores, and a row written through the one handle is not among
\* the rows read through the other.
C9_DifferentSlugsIsolated ==
  \A p1, p2 \in DOMAIN databases :
    GenerateProjectSlug(p1) # GenerateProjectSlug(p2) =>
      /\ databases[p1] # databases[p2]
      /\ handles[databases[p1]].store # handles[databases[p2]].store
      /\ databases[p1] \notin ReadThrough(databases[p2])

\* two paths with different slugs are cached and a row has been written
\* through the handle of one of them
C9_WrittenBesideOtherProject ==
  \E p1, p2 \in DOMAIN databases :
    /\ GenerateProjectSlug(p1) # GenerateProjectSlug(p2)
    /\ databases[p1] \in ReadThrough(databases[p1])

\* C10: a CloseAll step leaves the cache empty and every handle that was
\* cached closed, also when Close fails on some of them; it returns an error
\* exactly when Close failed on at least one of them.
C10_CloseAllClosesEverything ==
  [][\A t \in Callers :
       CloseAll(t) =>
         /\ databases' = <<>>
         /\ \A h \in Range(databases) : ~handles'[h].open
         /\ ret'.out \subseteq Range(databases)
         /\ (ret'.err # "") <=> (ret'.out # {})]_vars

\* CloseAll has returned an error after Close failed on two handles, and the
\* cache is empty and both handles are closed
C10_ClosedDespiteFailures ==
  /\ ret.op = "CloseAll" /\ ret.err # ""
  /\ Cardinality(ret.out) = 2
  /\ databases = <<>>
  /\ \A h \in ret.out : ~handles[h].open

\* C11: CloseDB(p) on a cached path removes the entry of p and no other,
\* closes the handle of p and no other; on a path that is not cached it
\* returns no error and changes nothing; a GetDB(p) that then succeeds caches a
\* handle that did not exist before.
C11_CloseDBClosesOnlyThatHandle ==
  [][\A t \in Callers, p \in Paths :
       /\ CloseDB(t, p) =>
            IF p \in DOMAIN databases
              THEN /\ DOMAIN databases' = DOMAIN databases \ {p}
                   /\ \A q \in DOMAIN databases' : databases'[q] = databases[q]
                   /\ ~handles'[databases[p]].open
                   /\ \A h \in DOMAIN handles \ {databases[p]} :
                        handles'[h] = handles[h]
              ELSE ret'.err = "" /\ UNCHANGED <<databases, handles, disk, hist>>
       /\ (GetDB_Create(t) /\ call[t] = p /\ p \notin DOMAIN databases
             /\ ret'.err = "")
            => /\ p \in DOMAIN databases'
               /\ databases'[p] \notin DOMAIN handles
               /\ handles'[databases'[p]].open]_vars

\* CloseDB has closed one cached handle while another path is still cached
\* with its handle open
C11_ClosedOneOfTwo ==
  /\ ret.op = "CloseDB" /\ ret.via = "hit"
  /\ databases # <<>>
  /\ \A q \in DOMAIN databases : handles[databases[q]].open
  /\ \E h \in DOMAIN handles : ~handles[h].open

\* C12: a GetDB(p) whose database.New fails returns the error, caches no entry
\* for p and leaves the cache and every handle as they were; whenever p is not
\* cached, GetDB(p) runs database.New, also after an earlier failure.
C12_FailedGetDBCachesNothing ==
  [][\A t \in Callers :
       /\ (GetDB_Create(t) /\ ret'.err # "")
            => /\ call[t] \notin DOMAIN databases'
               /\ databases' = databases
               /\ handles' = handles
       /\ (GetDB_Create(t) /\ call[t] \notin DOMAIN databases)
            => ret'.via = "new"]_vars

\* GetDB has returned the error of database.New while another path is cached
\* with its handle open
C12_FailedBesideCached ==
  /\ ret.op = "GetDB" /\ ret.err # ""
  /\ databases # <<>>
  /\ \A q \in DOMAIN databases : handles[databases[q]].open

\* C13: IsInitialized(p) is whether the store file of p's slug exists: the same
\* for two paths with one slug, false while no store exists, true for every
\* cached path, never turning false again (so still true after CloseDB and
\* CloseAll); a call of it changes neither the cache, nor a handle, nor the disk.
C13_IsInitializedFollowsDisk ==
  [][\A p \in Paths :
       /\ IsInitialized(p) => IsInitialized(p)'
       /\ p \in DOMAIN databases' => IsInitialized(p)'
       /\ disk = <<>> => ~IsInitialized(p)
       /\ \A q \in Paths :
            ProjectSlugs[p] = ProjectSlugs[q]
              => (IsInitialized(p) <=> IsInitialized(q))
       /\ \A t \in Callers :
            IsInitializedCall(t, p) =>
              /\ UNCHANGED <<databases, handles, disk>>
              /\ ret'.via = "true" <=> IsInitialized(p)]_vars

\* IsInitialized has returned true for a path that is no longer cached, after
\* every handle was closed
C13_TrueAfterClose ==
  /\ ret.op = "IsInitialized" /\ ret.via = "true"
  /\ databases = <<>>
  /\ handles # <<>>
  /\ \A h \in DOMAIN handles : ~handles[h].open

(***************************************************************************)
(* Properties of one engine under concurrent callers, checked under SpecTx *)
(* and SpecTxFair.                                                         *)
(***************************************************************************)
\* C14: at most one Transaction call is between its Begin and its Commit or
\* Rollback at any time, and its caller holds db.mu for that whole interval.
C14_OneTransactionInFlight ==
  /\ Cardinality(inflight) <= 1
  /\ \A t \in Callers : txno[t] \in inflight => dbmu # None
  /\ Cardinality({t \in Callers : txpc[t] = "fn"}) <= 1

\* one caller is inside the callback of its Transaction while another caller's
\* Transaction waits for db.mu
C14_SecondTransactionWaits ==
  \E t, u \in Callers :
    /\ t # u
    /\ txpc[t] = "fn" /\ txno[t] \in inflight
    /\ txpc[u] = "Transaction_wait" /\ ~nested[u]

\* C15: while a caller is inside the callback of Transaction, another caller
\* that is idle can issue GetDecision, and a GetDecision that was issued can
\* return: neither step waits for the transaction to end.
C15_ReadsNotBlockedByTransaction ==
  \A t, u \in Callers :
    (t # u /\ txpc[t] = "fn") =>
      /\ txpc[u] = "idle" => ENABLED GetDecision_Start(u)
      /\ txpc[u] = "GetDecision" => ENABLED GetDecision_Return(u)

\* GetDecision has started and returned while one Transaction was in flight
C15_ReadDuringTransaction ==
  /\ ret.op = "GetDecision" /\ ret.err = "" /\ ret.via = "during transaction"
  /\ inflight # {}

\* C16: under fair scheduling every call of Transaction, Close and GetDecision
\* that has started eventually returns to its caller.
C16_EveryCallReturns ==
  \A t \in Callers : (txpc[t] # "idle") ~> (txpc[t] = "idle")

\* the callback of a Transaction has called Transaction or Close on the same
\* engine and waits for the mutex its own caller holds
C16_CallbackWaitsForItself ==
  \E t \in Callers :
    /\ txpc[t] \in {"Transaction_wait", "Close_wait"}
    /\ nested[t]
    /\ dbmu = t

\* C17: over every step the version recorded in a store never decreases and
\* migration 1 has been applied to it at most once; initSchema on a fresh store
\* applies migration 1 and records version 1; initSchema on a store that
\* records version 1 returns no error and leaves the store as it is, and a
\* database.New that opens such a store applies no migration and changes no
\* row written by a caller.
C17_SchemaInitIdempotent ==
  [][/\ initSchema(FreshStore).err = ""
     /\ initSchema(FreshStore).store.version = 1
     /\ initSchema(FreshStore).store.migrations = 1
     /\ \A store \in DOMAIN disk' :
          /\ disk'[store].migrations <= 1
          /\ store \in DOMAIN disk => disk'[store].version >= disk[store].version
          /\ disk'[store].version = 1 =>
               initSchema(disk'[store]) = [store |-> disk'[store], err |-> ""]
          /\ \A t \in Callers :
               (/\ GetDB_Create(t)
                /\ store \in DOMAIN disk
                /\ disk[store].version = 1)
               => /\ disk'[store].version = disk[store].version
                  /\ disk'[store].migrations = disk[store].migrations
                  /\ disk'[store].rows = disk[store].rows]_vars

\* a store that records version 1 has been opened a
\* second time: two handles were made for it, and migration 1 was applied once
C17_OpenedTwice ==
  \E h1, h2 \in DOMAIN handles :
    /\ h1 # h2
    /\ handles[h1].store = handles[h2].store
    /\ disk[handles[h1].store].version = 1
    /\ disk[handles[h1].store].migrations = 1

(***************************************************************************)
(* Properties of the engine with several projects, checked under SpecProj, *)
(* and of its sessions, checked under SpecSess.                            *)
(***************************************************************************)
\* the project a create operation stores for the ProjectID it is given
ResolvedProject(project) == IF project = NoID THEN projectID ELSE project

ProjectIsGone(id) ==
  /\ \A s \in DOMAIN sessions' : sessions'[s].project_id # id
  /\ \A d \in DOMAIN decisions' : decisions'[d].project_id # id
  /\ \A s \in DOMAIN sessions : sessions[s].project_id = id => s \notin DOMAIN sessions'
  /\ \A d \in DOMAIN decisions : decisions[d].project_id = id => GetDecision(d)' = Null
  /\ \A o \in DOMAIN overrides :
       decisions[overrides[o].decision_id].project_id = id => o \notin DOMAIN overrides'

\* session s belongs to project id
SessionOf(s, id) == s \in DOMAIN sessions /\ sessions[s].project_id = id

RECURSIVE Ancestors(_, _)
Ancestors(s, n) ==
  IF n = 0 \/ s \notin DOMAIN sessions
       \/ sessions[s].parent_session_id \notin DOMAIN sessions
    THEN {}
    ELSE {sessions[s].parent_session_id}
           \cup Ancestors(sessions[s].parent_session_id, n - 1)

\* C20: the parent of every session is an existing session of the same
\* project, and no session is its own ancestor.
C20_SessionsFormForest ==
  \A s \in DOMAIN sessions :
    /\ sessions[s].parent_session_id # Null =>
         /\ sessions[s].parent_session_id \in DOMAIN sessions
         /\ sessions[sessions[s].parent_session_id].project_id
              = sessions[s].project_id
    /\ s \notin Ancestors(s, Cardinality(DOMAIN sessions))

\* the state C20 forbids: UpdateSession has made a session its own parent
C20_OwnParent ==
  /\ ret.op = "UpdateSession" /\ ret.err = ""
  /\ ret.id \in DOMAIN sessions
  /\ sessions[ret.id].parent_session_id = ret.id

(***************************************************************************)
(* Properties of sessions and their lineage.                               *)
(***************************************************************************)
\* C21: a successful DeleteSession(id) removes the row id and no other session;
\* every session whose parent_session_id was id is still stored, with a NULL
\* parent_session_id and every other field as it was, and every other session
\* is unchanged.
C21_DeleteSessionOrphans ==
  [][\A id \in DOMAIN sessions :
       DeleteSession(id) =>
         /\ ret'.err = ""
         /\ DOMAIN sessions' = DOMAIN sessions \ {id}
         /\ \A s \in DOMAIN sessions \ {id} :
              sessions'[s] =
                IF sessions[s].parent_session_id = id
                  THEN [sessions[s] EXCEPT !.parent_session_id = Null]
                  ELSE sessions[s]]_vars

\* DeleteSession has deleted a session that had a child, and the child is
\* stored without a parent
C21_ChildOrphaned ==
  /\ ret.op = "DeleteSession" /\ ret.err = "" /\ ret.via = "set null"
  /\ ret.id \notin DOMAIN sessions
  /\ \E s \in DOMAIN sessions : sessions[s].parent_session_id = Null

\* C22: ForkSession(parentID, newName) on a stored parent succeeds and adds
\* exactly one session row, which carries parentID as parent_session_id, the
\* parent's project_id and newName; every session stored before, the parent
\* included, is unchanged, and so are the decisions, notes, attempts,
\* overrides and projects.
C22_ForkAddsOneSession ==
  [][\A parentID \in DOMAIN sessions, newName \in LineageNames :
       ForkSession(parentID, newName) =>
         /\ ret'.err = ""
         /\ ret'.out \notin DOMAIN sessions
         /\ DOMAIN sessions' = DOMAIN sessions \cup {ret'.out}
         /\ sessions'[ret'.out].parent_session_id = parentID
         /\ sessions'[ret'.out].project_id = sessions[parentID].project_id
         /\ sessions'[ret'.out].name = newName
         /\ \A s \in DOMAIN sessions : sessions'[s] = sessions[s]
         /\ UNCHANGED <<decisions, notes, attempts, overrides, projects>>]_vars

\* ForkSession has forked a session that a decision, a note or an attempt
\* names, and the fork is stored with that session as its parent
C22_ForkedWithRows ==
  /\ ret.op = "ForkSession" /\ ret.err = ""
  /\ ret.out \in DOMAIN sessions
  /\ sessions[ret.out].parent_session_id = ret.id
  /\ \/ \E d \in DOMAIN decisions : decisions[d].session_id = ret.id
     \/ \E n \in DOMAIN notes : notes[n].session_id = ret.id
     \/ \E a \in DOMAIN attempts : attempts[a].session_id = ret.id

\* C23: GetOrCreateSession(name) returns a session of the bound project with
\* that name; it adds one session row when no such session is stored and none
\* otherwise; called right after a GetOrCreateSession that returned a session
\* of the same name it returns that same session and adds no row, and called
\* right after one that returned a session of another name it returns a
\* different session.
C23_GetOrCreateDeduplicates ==
  [][\A name \in LineageNames :
       GetOrCreateSession(name) =>
         LET stored == {s \in DOMAIN sessions :
                          /\ sessions[s].project_id = projectID
                          /\ sessions[s].name = name}
         IN /\ ret'.err = ""
            /\ ret'.out \in DOMAIN sessions'
            /\ sessions'[ret'.out].name = name
            /\ sessions'[ret'.out].project_id = projectID
            /\ IF stored # {}
                 THEN ret'.out \in stored /\ UNCHANGED sessions
                 ELSE /\ ret'.out \notin DOMAIN sessions
                      /\ DOMAIN sessions' = DOMAIN sessions \cup {ret'.out}
                      /\ \A s \in DOMAIN sessions : sessions'[s] = sessions[s]
            /\ (ret.op = "GetOrCreateSession" /\ ret.err = "") =>
                 IF sessions[ret.out].name = name
                   THEN ret'.out = ret.out /\ UNCHANGED sessions
                   ELSE ret'.out # ret.out]_vars

\* GetOrCreateSession has found the session of a name while a session of
\* another name is stored in the bound project
C23_FoundAgain ==
  /\ ret.op = "GetOrCreateSession" /\ ret.err = "" /\ ret.via = "found"
  /\ \E s \in DOMAIN sessions :
       /\ sessions[s].project_id = projectID
       /\ sessions[s].name # sessions[ret.out].name

(***************************************************************************)
(* Properties of calls that name an id no row carries.                     *)
(***************************************************************************)
\* the ids of the rows an updating or deleting operation may name
TargetsOf(op) ==
  CASE op \in {"UpdateProject", "DeleteProject"} -> DOMAIN projects
    [] op \in {"UpdateSession", "DeleteSession", "ForkSession"} -> DOMAIN sessions
    [] op \in {"UpdateDecision", "ArchiveDecision", "OverrideDecision",
               "DeleteDecision"} -> DOMAIN decisions
    [] op \in {"UpdateNote", "DeleteNote"} -> DOMAIN notes
    [] op \in {"UpdateAttemptOutcome", "DeleteAttempt"} -> DOMAIN attempts

MutationOps ==
  {"UpdateProject", "UpdateSession", "UpdateDecision", "UpdateNote",
   "UpdateAttemptOutcome", "ArchiveDecision", "OverrideDecision",
   "DeleteProject", "DeleteSession", "DeleteDecision", "DeleteAttempt",
   "DeleteNote", "ForkSession"}

\* C24: a call of UpdateProject, UpdateSession, UpdateDecision, UpdateNote,
\* UpdateAttemptOutcome, ArchiveDecision, OverrideDecision, DeleteProject,
\* DeleteSession, DeleteDecision, DeleteAttempt, DeleteNote or ForkSession that
\* names an id (for ForkSession: a parent) no row of its table carries returns
\* the not-found error and changes no row of any table.
C24_MissingIdIsAnError ==
  [][(ret'.op \in MutationOps /\ ret'.id \notin TargetsOf(ret'.op))
       => (ret'.err = "not found" /\ UNCHANGED Tables)]_vars

\* an update has named an id that no row carries while every table holds rows
\* it could have changed, and it returned not found
C24_NotFoundBesideRows ==
  /\ ret.op \in {"UpdateNote", "UpdateAttemptOutcome", "UpdateSession"}
  /\ ret.err = "not found"
  /\ ret.id = GhostID
  /\ sessions # <<>> /\ notes # <<>> /\ attempts # <<>>

\* the single-row reads, and for a call of one of them whether its key names
\* a stored row
ReadOps ==
  {"GetProject", "GetProjectByName", "GetSession", "GetDecision",
   "GetOverride", "GetAttempt", "GetNote"}

KeyIsStored(r) ==
  CASE r.op = "GetProject" -> r.id \in DOMAIN projects
    [] r.op = "GetProjectByName" ->
         \E p \in DOMAIN projects : projects[p].name = r.via
    [] r.op = "GetSession" -> r.id \in DOMAIN sessions
    [] r.op = "GetDecision" -> r.id \in DOMAIN decisions
    [] r.op = "GetOverride" -> r.id \in DOMAIN overrides
    [] r.op = "GetAttempt" -> r.id \in DOMAIN attempts
    [] r.op = "GetNote" -> r.id \in DOMAIN notes

\* C25: a call of GetProject, GetProjectByName, GetSession, GetDecision,
\* GetOverride, GetAttempt or GetNote with a key no row carries returns nil
\* and no error, and a call with a stored key returns that row; neither
\* changes a table, the bound project, or the identifiers and times given out.
C25_MissingKeyReadsNil ==
  [][ret'.op \in ReadOps =>
       /\ UNCHANGED <<Tables, projectID, nextID, now>>
       /\ ret'.err = ""
       /\ IF KeyIsStored(ret') THEN ret'.out # Null ELSE ret'.out = Null]_vars

\* a read has returned nil and no error for a key that no row carries, while
\* its table holds other rows
C25_NilBesideRows ==
  /\ ret.op \in {"GetNote", "GetAttempt", "GetOverride", "GetDecision"}
  /\ ret.id = GhostID
  /\ ret.out = Null /\ ret.err = ""
  /\ \/ ret.op = "GetNote" /\ notes # <<>>
     \/ ret.op = "GetAttempt" /\ attempts # <<>>
     \/ ret.op = "GetOverride" /\ overrides # <<>>
     \/ ret.op = "GetDecision" /\ decisions # <<>>

(***************************************************************************)
(* Properties of UpdateDecision and of the queries over decisions.         *)
(***************************************************************************)
\* C26: a successful UpdateDecision(d) leaves the row d.ID with the category,
\* decision, rationale, alternatives_rejected and status of d and with the id,
\* project_id, session_id and created_at it had, whatever d carries for them;
\* every other decision and every row of every other table is unchanged; an
\* UpdateDecision that fails changes no row.
C26_UpdateDecisionFrame ==
  [][\A d \in DecisionInputs(DOMAIN decisions, {NoID}, {NoID}) :
       UpdateDecision(d) =>
         IF ret'.err = ""
           THEN /\ DOMAIN decisions' = DOMAIN decisions
                /\ decisions'[d.ID].category = d.Category
                /\ decisions'[d.ID].decision = d.Decision
                /\ decisions'[d.ID].rationale = d.Rationale
                /\ decisions'[d.ID].alternatives_rejected = d.AlternativesRejected
                /\ decisions'[d.ID].status = d.Status
                /\ decisions'[d.ID].project_id = decisions[d.ID].project_id
                /\ decisions'[d.ID].session_id = decisions[d.ID].session_id
                /\ decisions'[d.ID].created_at = decisions[d.ID].created_at
                /\ \A x \in DOMAIN decisions \ {d.ID} : decisions'[x] = decisions[x]
                /\ UNCHANGED <<projects, sessions, overrides, attempts, notes>>
           ELSE UNCHANGED Tables]_vars

\* UpdateDecision has changed the status of a decision that belongs to a
\* session, with a Decision that names no session, while an override is stored
C26_UpdatedLinkedDecision ==
  /\ ret.op = "UpdateDecision" /\ ret.err = ""
  /\ ret.was # decisions[ret.id].status
  /\ decisions[ret.id].session_id \in DOMAIN sessions
  /\ decisions[ret.id].project_id = BoundProject
  /\ overrides # <<>>

\* search occurs in text, letters compared without regard to ASCII case
ContainsIgnoringCase(text, search) ==
  \E i \in 1..(Len(text) - Len(search) + 1) :
    \A j \in 1..Len(search) :
      ToLowerChar(text[i + j - 1]) = ToLowerChar(search[j])

\* the decisions that satisfy every present field of filter, a search being
\* satisfied when the decision or the rationale contains it
SatisfyFilter(filter) ==
  {d \in DOMAIN decisions :
     /\ decisions[d].project_id =
          (IF filter.ProjectID # NoID THEN filter.ProjectID ELSE projectID)
     /\ filter.SessionID # NoID => decisions[d].session_id = filter.SessionID
     /\ filter.Category # <<>> => decisions[d].category = filter.Category
     /\ filter.Status # "" => decisions[d].status = filter.Status
     /\ filter.Search # <<>> =>
          \/ ContainsIgnoringCase(decisions[d].decision, filter.Search)
          \/ ContainsIgnoringCase(decisions[d].rationale, filter.Search)}

\* list holds no decision twice and is ordered by created_at, newest first
NewestFirst(list) ==
  \A i, j \in DOMAIN list :
    i < j => decisions[list[i]].created_at > decisions[list[j]].created_at

\* C27: ListDecisions(filter) returns only decisions that satisfy every present
\* field of filter (the search read in the widest sense: contained in the
\* decision or the rationale, whatever the case of its letters), newest first,
\* and all of them when no limit is set.
C27_ListDecisionsFilters ==
  [][ret'.op = "ListDecisions" =>
       LET filter == ret'.arg
       IN ListDecisionsCall(filter) =>
            /\ ret'.err = ""
            /\ Range(ret'.out) \subseteq SatisfyFilter(filter)
            /\ NewestFirst(ret'.out)
            /\ filter.Limit <= 0 => Range(ret'.out) = SatisfyFilter(filter)]_vars

\* the state C27 forbids: ListDecisions has returned a decision although
\* neither its decision nor its rationale contains an underscore, the
\* character that was searched for
C27_ListedWithoutTheSearch ==
  /\ ret.op = "ListDecisions" /\ ret.err = ""
  /\ ret.arg.Search = <<"_">>
  /\ \E i \in DOMAIN ret.out :
       /\ ~ContainsIgnoringCase(decisions[ret.out[i]].decision, <<"_">>)
       /\ ~ContainsIgnoringCase(decisions[ret.out[i]].rationale, <<"_">>)

\* the tokens of query that are 3 or more characters long
LongTokens(query) == {w \in Range(Fields(query)) : Len(w) >= 3}

\* the active decisions of the bound project whose decision text or category
\* contains, ignoring case, a token of query of 3 or more characters
RelevantTo(query) ==
  {d \in DOMAIN decisions :
     /\ decisions[d].project_id = projectID
     /\ decisions[d].status = DecisionStatusActive
     /\ \E w \in LongTokens(query) :
          \/ ContainsIgnoringCase(decisions[d].decision, w)
          \/ ContainsIgnoringCase(decisions[d].category, w)}

\* C28: FindRelevantDecisions(query) returns without error the at most 10 newest
\* active decisions of the bound project whose decision text or category
\* contains, ignoring case, a whitespace-separated token of query of 3 or more
\* characters: nothing when there is no such token or no such decision, and
\* never an overridden or archived decision.
C28_FindRelevantDecisions ==
  [][ret'.op = "FindRelevantDecisions" =>
       LET query == ret'.arg
       IN FindRelevantDecisionsCall(query) =>
            /\ ret'.err = ""
            /\ ret'.out =
                 LimitOffset(OrderByCreatedAtDesc(RelevantTo(query)), 10, 0)]_vars

\* the state C28 forbids: FindRelevantDecisions has returned a decision that
\* holds no token of the query in its text or its category
C28_ReturnedWithoutAToken ==
  /\ ret.op = "FindRelevantDecisions" /\ ret.err = ""
  /\ \E i \in DOMAIN ret.out :
       \A w \in Range(Fields(ret.arg)) :
         /\ ~ContainsIgnoringCase(decisions[ret.out[i]].decision, w)
         /\ ~ContainsIgnoringCase(decisions[ret.out[i]].category, w)

\* the decisions in the result of GetOverridePatterns
PatternDecisions(out) == {out[i].Decision : i \in DOMAIN out}

\* C29: GetOverridePatterns(minOverrides) returns a decision exactly when it is
\* of the bound project, has at least one override and has at least
\* minOverrides overrides; it returns it once, with the number of its overrides,
\* and the numbers never increase along the result. A decision without
\* overrides is never returned, whatever minOverrides.
C29_OverridePatterns ==
  [][ret'.op = "GetOverridePatterns" =>
       LET minOverrides == ret'.arg
           out == ret'.out
       IN /\ ret'.err = ""
          /\ \A d \in DOMAIN decisions :
               d \in PatternDecisions(out) <=>
                 /\ decisions[d].project_id = projectID
                 /\ OverrideCount(d) >= 1
                 /\ OverrideCount(d) >= minOverrides
          /\ PatternDecisions(out) \subseteq DOMAIN decisions
          /\ \A i \in DOMAIN out :
               out[i].OverrideCount = OverrideCount(out[i].Decision)
          /\ \A i, j \in DOMAIN out :
               /\ i < j => out[i].OverrideCount >= out[j].OverrideCount
               /\ i # j => out[i].Decision # out[j].Decision]_vars

\* GetOverridePatterns was called with a minimum of 0 or less beside a decision
\* of the bound project without overrides, and returned only the other one,
\* which has two
C29_MinedBesideUnoverridden ==
  /\ ret.op = "GetOverridePatterns" /\ ret.arg <= 0
  /\ \E d \in DOMAIN decisions :
       decisions[d].project_id = projectID /\ OverrideCount(d) = 0
  /\ Len(ret.out) = 1 /\ ret.out[1].OverrideCount = 2

\* C30: CreateAttempt without an outcome stores pending; a successful
\* UpdateAttemptOutcome(id, outcome, failureReason) leaves attempt id with that
\* outcome and that failure reason, read as empty when none was given, so a
\* successful MarkAttemptWorked leaves outcome worked and an empty failure
\* reason; every stored outcome is pending, worked, failed or partial.
C30_AttemptOutcome ==
  [][/\ (ret'.op = "CreateAttempt" /\ ret'.err = "") =>
          \A s \in DOMAIN sessions, o \in OutcomeInputs, r \in FailureReasons :
            CreateAttempt(NoID, s, o, r) =>
              attempts'[ret'.out].outcome =
                (IF o = "" THEN AttemptOutcomePending ELSE o)
     /\ (ret'.op = "UpdateAttemptOutcome" /\ ret'.err = "") =>
          \A o \in OutcomeInputs, r \in FailureReasons :
            UpdateAttemptOutcome(ret'.id, o, r) =>
              /\ attempts'[ret'.id].outcome = o
              /\ FromNullText(attempts'[ret'.id].failure_reason) = r
     /\ (ret'.op = "MarkAttemptWorked" /\ ret'.err = "") =>
          (MarkAttemptWorked(ret'.id) =>
             /\ attempts'[ret'.id].outcome = AttemptOutcomeWorked
             /\ FromNullText(attempts'[ret'.id].failure_reason) = "")
     /\ \A a \in DOMAIN attempts' :
          attempts'[a].outcome \in
            {AttemptOutcomePending, AttemptOutcomeWorked, AttemptOutcomeFailed,
             AttemptOutcomePartial}]_vars

\* MarkAttemptWorked has succeeded on an attempt that had the failure reason
\* timeout
C30_WorkedAfterFailure ==
  /\ ret.op = "MarkAttemptWorked" /\ ret.err = ""
  /\ ret.was = "timeout"
  /\ ret.id \in DOMAIN attempts
  /\ attempts[ret.id].outcome = AttemptOutcomeWorked

\* the non-empty segments of the cleaned path
CleanedSegments(path) ==
  SelectSeq(SplitPath(Clean(path)), LAMBDA seg : seg # <<>>)

\* the text the slug is made of: parent, a hyphen and base for a cleaned path of
\* two or more segments, else the only segment, else the cleaned path itself
SlugText(path) ==
  LET segs == CleanedSegments(path)
      n == Len(segs)
  IN IF n >= 2 THEN segs[n - 1] \o <<"-">> \o segs[n]
     ELSE IF n = 1 THEN segs[1]
     ELSE Clean(path)

\* the characters a slug is made of
SlugChars ==
  Range(LowerChars) \cup Range(DigitChars) \cup {"-", "_"}

\* text with A-Z in lower case and space and separator as hyphens, and then
\* only the characters of a slug kept
Sanitized(text) ==
  SelectSeq([i \in DOMAIN text |->
               IF text[i] \in {" ", "/"} THEN "-" ELSE ToLowerChar(text[i])],
            LAMBDA c : c \in SlugChars)

\* C31: GenerateProjectSlug(path) is the sanitized '<parent>-<base>' of the
\* last two segments of the cleaned path, or the sanitized base alone when
\* there is no parent segment, and holds only characters of [a-z0-9_-].
C31_SlugOfLastTwoSegments ==
  ret.op = "GenerateProjectSlug" =>
    /\ ret.err = ""
    /\ ret.out = Sanitized(SlugText(ret.arg))
    /\ \A i \in DOMAIN ret.out : ret.out[i] \in SlugChars

\* the slug of /Users/Test/Projects/MyProject has been computed and is
\* projects-myproject
C31_SlugOfExample ==
  /\ ret.op = "GenerateProjectSlug"
  /\ ret.arg = PathUsers
  /\ ret.out = <<"p", "r", "o", "j", "e", "c", "t", "s", "-",
                 "m", "y", "p", "r", "o", "j", "e", "c", "t">>

\* the cursor of the panel is a position of its list, or 0 in an empty list
CursorInBounds ==
  /\ 0 <= panel.cursor
  /\ panel.decisions # <<>> => panel.cursor < Len(panel.decisions)

\* C32: after any sequence of SetDecisions, MoveUp and MoveDown the cursor is
\* at least 0 and, in a non-empty list, less than the number of decisions;
\* MoveDown on the last item and MoveUp on the first leave the cursor alone,
\* SetDecisions with a list that ends before the cursor moves it to the last
\* index, and Selected returns the decision at the cursor, nil exactly when the
\* list is empty.
C32_CursorStaysInList ==
  /\ []CursorInBounds
  /\ [][/\ (MoveDown /\ panel.cursor = Len(panel.decisions) - 1)
             => panel'.cursor = panel.cursor
        /\ (MoveUp /\ panel.cursor = 0) => panel'.cursor = panel.cursor
        /\ \A list \in ShownLists :
             (SetDecisions(list) /\ list # <<>> /\ Len(list) <= panel.cursor)
               => panel'.cursor = Len(list) - 1
        /\ SelectedCall =>
             /\ ret'.out = Null <=> panel.decisions = <<>>
             /\ panel.decisions # <<>>
                  => ret'.out = panel.decisions[panel.cursor + 1]]_vars

\* SetDecisions has replaced a list by a shorter one that is not empty, with
\* the cursor now on its last item
C32_ClampedToLast ==
  /\ ret.op = "SetDecisions"
  /\ panel.decisions # <<>>
  /\ Len(panel.decisions) < MaxList
  /\ panel.cursor = Len(panel.decisions) - 1
  /\ panel.viewOffset > panel.cursor

\* C33: every decision whose status is overridden has at least one override
\* row.
C33_OverriddenHasOverride ==
  \A d \in DOMAIN decisions :
    decisions[d].status = DecisionStatusOverridden =>
      \E o \in DOMAIN overrides : overrides[o].decision_id = d

\* the state C33 forbids, reached by DeleteSession: the session is gone, its
\* override rows with it, and a decision is left overridden without any
C33_OverriddenWithoutOverride ==
  /\ ret.op = "DeleteSession" /\ ret.err = ""
  /\ \E d \in DOMAIN decisions :
       /\ decisions[d].status = DecisionStatusOverridden
       /\ \A o \in DOMAIN overrides : overrides[o].decision_id # d

\* every handle in the manager's cache is open
CachedHandlesOpen ==
  \A p \in DOMAIN databases : handles[databases[p]].open

\* C34: under every interleaving of GetDB with CloseDB and CloseAll, every
\* handle in the manager's cache is open, and the handle GetDB returns is not
\* one the manager has closed by then.
C34_GetDBReturnsOpenHandle ==
  /\ []CachedHandlesOpen
  /\ [][\A t \in Callers : GetDB_Return(t) => handles[found[t]].open]_vars

\* the state C34 forbids: GetDB has returned a handle that is closed and no
\* longer in the cache
C34_ReturnedClosedHandle ==
  /\ ret.op = "GetDB" /\ ret.err = "" /\ ret.via = "lookup"
  /\ ret.id \in DOMAIN handles
  /\ ~handles[ret.id].open
  /\ \A p \in DOMAIN databases : databases[p] # ret.id

\* C35: under every interleaving of GetOrCreateSession calls on one engine,
\* the bound project holds at most one session of each name, and a call that
\* returns while a session of its name is stored returns that session.
C35_ConcurrentGetOrCreate ==
  /\ [](\A name \in LineageNames : Cardinality(SessionsNamed(name)) <= 1)
  /\ [][\A t \in Callers :
          ((GetOrCreateSession_Found(t) \/ GetOrCreateSession_Create(t))
             /\ ret'.err = "")
            => \A s \in SessionsNamed(selected[t].name) : ret'.out = s]_vars

\* the state C35 forbids: two sessions of one name in the bound project, the
\* second just created by GetOrCreateSession
C35_TwoSessionsOfOneName ==
  /\ ret.op = "GetOrCreateSession" /\ ret.err = "" /\ ret.via = ""
  /\ \E s \in DOMAIN sessions :
       /\ s # ret.out
       /\ sessions[s].name = sessions[ret.out].name
       /\ sessions[s].project_id = sessions[ret.out].project_id

\* what holds of every return of Transaction, whatever Commit does: the lock
\* is released, an error of fn is returned and leaves none of the writes
\* visible, and no other call's writes become visible
TransactionEnds(t) ==
  /\ dbmu' = None
  /\ ret'.via = "fn returned an error" =>
       (ret'.err = "fn failed" /\ txno[t] \notin committed')
  /\ committed' \ committed \subseteq {txno[t]} \cap wrote

\* C36 as stated: Transaction returns fn's error and leaves none of fn's writes
\* visible when fn returns an error, makes all of them visible when fn returns
\* nil, and releases the lock in both cases.
C36_CommitsWhenFnReturnsNil ==
  [][\A t \in Callers :
       Transaction_Finish(t) =>
         /\ TransactionEnds(t)
         /\ (ret'.via = "fn returned nil" /\ txno[t] \in wrote)
              => txno[t] \in committed']_vars

\* C36, amended: when fn returns nil Transaction returns what Commit returns,
\* and the writes of fn are visible exactly when that is nil; the rest as
\* stated.
C36_CommitsWhenCommitSucceeds ==
  [][\A t \in Callers :
       Transaction_Finish(t) =>
         /\ TransactionEnds(t)
         /\ (ret'.via = "fn returned nil" /\ txno[t] \in wrote)
              => (txno[t] \in committed' <=> ret'.err = "")]_vars

\* a Transaction whose callback wrote and returned nil has committed, after an
\* earlier one whose callback wrote was rolled back
C36_CommittedAfterRollback ==
  /\ ret.op = "Transaction" /\ ret.err = "" /\ ret.via = "fn returned nil"
  /\ ret.id[1] \in committed
  /\ wrote \ committed # {}
  /\ dbmu = None

(***************************************************************************)
(* Reopening a project path, checked under SpecStore.                      *)
(***************************************************************************)
\* the slug in the path of a store file
SlugOfStore(store) == store[2]

\* C37: opening a project path again binds to the same project: every handle
\* opened on a store has the ProjectID the first open assigned, the store
\* holds exactly one Project row and it is named by the slug, the rows written
\* before a close are returned by the list operations through every later
\* handle, and no open fails on the unique project name.
C37_ReopenBindsSameProject ==
  /\ \A h \in DOMAIN handles :
       LET file == disk[handles[h].store]
       IN /\ Cardinality(file.projects) = 1
          /\ \A p \in file.projects :
               /\ p.name = SlugOfStore(handles[h].store)
               /\ p.id = handles[h].projectID
          /\ handles[h].projectID = <<1>>
          /\ ListThrough(h) = file.rows
  /\ \A h1, h2 \in DOMAIN handles :
       handles[h1].store = handles[h2].store
         => handles[h1].projectID = handles[h2].projectID
  /\ ret.op = "GetDB" => ret.via # "project name taken"

\* a path was opened, a row was written, the handle was closed and the path
\* was opened again: the new handle lists the row written through the old one
C37_ReopenedWithRows ==
  \E h1, h2 \in DOMAIN handles :
    /\ h1 # h2
    /\ handles[h1].store = handles[h2].store
    /\ ~handles[h1].open /\ handles[h2].open
    /\ h1 \in ListThrough(h2)
    /\ ret.op = "GetDB" /\ ret.via = "new" /\ ret.err = ""

(***************************************************************************)
(* Overriding a decision again, checked under SpecOverride.                *)
(***************************************************************************)
\* C38: OverrideDecision on a stored Decision succeeds whatever its status
\* when its session is stored, leaves the status overridden and adds exactly
\* one Override row of the Decision; no other step of a history without
\* deletions changes the Decision's Override rows, so that after k successful
\* calls CountOverridesForDecision is k, the number of rows of
\* ListOverridesForDecision.
C38_OverrideAgainAddsOneRow ==
  [][/\ \A id \in DOMAIN decisions :
          IF ret'.op = "OverrideDecision" /\ ret'.id = id /\ ret'.err = ""
            THEN /\ decisions'[id].status = DecisionStatusOverridden
                 /\ ListOverridesForDecision(id)' =
                      ListOverridesForDecision(id) \cup {ret'.out}
                 /\ ret'.out \notin DOMAIN overrides
                 /\ CountOverridesForDecision(id)' =
                      CountOverridesForDecision(id) + 1
            ELSE CountOverridesForDecision(id)' = CountOverridesForDecision(id)
     /\ \A id \in DOMAIN decisions, s \in DOMAIN sessions, r \in Rationales :
          OverrideDecision(id, s, r) => ret'.err = ""
     /\ \A id \in DOMAIN decisions' :
          CountOverridesForDecision(id)' =
            Cardinality(ListOverridesForDecision(id)')]_vars

\* a Decision that was overridden already has been overridden a second time:
\* two Override rows name it
C38_OverriddenTwice ==
  \E id \in DOMAIN decisions :
    /\ ret.op = "OverrideDecision" /\ ret.id = id /\ ret.err = ""
    /\ ret.was = DecisionStatusOverridden
    /\ decisions[id].status = DecisionStatusOverridden
    /\ CountOverridesForDecision(id) = 2

(***************************************************************************)
(* The frame of ArchiveDecision, checked under SpecDB.                     *)
(***************************************************************************)
\* C39: ArchiveDecision(id) on a stored Decision succeeds whatever its status
\* and sets the status to archived; the Decision's other columns, every other
\* Decision, every Override row and every other table stay as they are, and
\* the same UPDATE run again on the result changes nothing.
C39_ArchiveChangesOnlyStatus ==
  [][/\ \A id \in DOMAIN decisions :
          ArchiveDecision(id) => ret'.err = ""
     /\ (ret'.op = "ArchiveDecision" /\ ret'.err = "") =>
          ret'.id \in DOMAIN decisions
     /\ \A id \in DOMAIN decisions :
          (ret'.op = "ArchiveDecision" /\ ret'.err = "" /\ ret'.id = id) =>
             /\ DOMAIN decisions' = DOMAIN decisions
             /\ decisions'[id] =
                  [decisions[id] EXCEPT !.status = DecisionStatusArchived]
             /\ \A d \in DOMAIN decisions \ {id} : decisions'[d] = decisions[d]
             /\ overrides' = overrides
             /\ ListOverridesForDecision(id)' = ListOverridesForDecision(id)
             /\ UNCHANGED <<projects, sessions, attempts, notes, projectID>>
             /\ ArchiveUpdate(id)' = decisions']_vars

\* an overridden Decision that has an Override row has been archived, beside
\* another Decision that is not archived
C39_ArchivedAnOverridden ==
  /\ ret.op = "ArchiveDecision" /\ ret.err = ""
  /\ ret.was = DecisionStatusOverridden
  /\ decisions[ret.id].status = DecisionStatusArchived
  /\ CountOverridesForDecision(ret.id) = 1

\* a Decision that was archived already has been archived again
C39_ArchivedTwice ==
  /\ ret.op = "ArchiveDecision" /\ ret.err = ""
  /\ ret.was = DecisionStatusArchived
  /\ \E d \in DOMAIN decisions : decisions[d].status # DecisionStatusArchived

(***************************************************************************)
(* The project of the rows the list operations return, checked under       *)
(* SpecScope.                                                              *)
(***************************************************************************)
\* the project an Override belongs to: that of its Decision
ProjectOfOverride(o) == decisions[overrides[o].decision_id].project_id

\* the list operations that select by project_id return rows of the bound
\* project only
ProjectFilteredListsInScope ==
  /\ ret.op = "ListDecisions" =>
       \A i \in DOMAIN ret.out : decisions[ret.out[i]].project_id = projectID
  /\ ret.op = "ListSessions" =>
       \A s \in ret.out : sessions[s].project_id = projectID
  /\ ret.op = "ListNotes" =>
       \A n \in ret.out : notes[n].project_id = projectID

\* C40: in a store that holds more than one Project, a list operation called
\* without a project returns only rows of the engine's bound project.
C40_ListsStayInBoundProject ==
  /\ ProjectFilteredListsInScope
  /\ ret.op = "ListNotesBySession" =>
       \A n \in ret.out : notes[n].project_id = projectID
  /\ ret.op = "ListOverridesForDecision" =>
       \A o \in ret.out : ProjectOfOverride(o) = projectID

\* ListOverridesForDecision has returned an Override of a Decision of another
\* project than the bound one
C40_ListedOverrideOfOtherProject ==
  /\ ret.op = "ListOverridesForDecision"
  /\ \E o \in ret.out : ProjectOfOverride(o) # projectID
  /\ Cardinality(DOMAIN projects) > 1

====
